---------------------------- MODULE Spec2Model ----------------------------
(***************************************************************************)
(* qBittorrent queue scheduler (plugins.v2/qbsmartqueue/__init__.py).      *)
(*                                                                         *)
(* The state is the plugin's configuration, the torrents held by each      *)
(* downloader instance, the free space of the disks, the process-wide      *)
(* lock, and for every thread that runs a handler its position in          *)
(* manage_queue together with the locals of _manage_single_downloader.     *)
(*                                                                         *)
(* All byte quantities are counted in GiB, so the factor 1024 ** 3 of      *)
(* max_capacity_bytes and min_free_bytes is 1.  Strings that the code      *)
(* takes apart (paths) are sequences of one-character strings.             *)
(***************************************************************************)
EXTENDS Integers, Sequences, FiniteSets, TLC

VARIABLES
    saved_config, \* the saved configuration that init_plugin was called with
    scheduler,  \* the run-once job of self._scheduler is waiting to fire
    cfg,        \* the attributes init_plugin sets (self._enabled, ...)
    torrents,   \* torrents[i]: the torrent list downloader instance i holds
    connected,  \* connected[i]: instance i is an active qBittorrent service
    disk,       \* disk[p]: what SystemUtils.free_space returns for path p
    lock,       \* the module-level threading.Lock
    pc,         \* pc[t]: where thread t stands in its handler
    loc,        \* loc[t]: the locals of thread t's run of manage_queue
    budget,     \* triggers the environment may still deliver
    triggered,  \* handler calls that went on to call manage_queue
    runs,       \* runs of manage_queue that have finished
    done        \* record of the last pass that ran for an instance

vars == <<saved_config, scheduler, cfg, torrents, connected, disk, lock, pc, loc, budget, triggered, runs, done>>

-----------------------------------------------------------------------------
(* Bounds of the model *)

MaxTorrents == 3
NumThreads == 3
MaxTriggers == 3

Threads == 1..NumThreads
Instances == {1, 2}

-----------------------------------------------------------------------------
(* Strings *)

Range(s) == {s[k] : k \in DOMAIN s}

None == <<"None">>

\* str.startswith
StartsWith(s, p) == Len(p) <= Len(s) /\ SubSeq(s, 1, Len(p)) = p

\* str.rstrip("/")
RECURSIVE RStripSlash(_)
RStripSlash(s) ==
    IF Len(s) > 0 /\ s[Len(s)] = "/"
    THEN RStripSlash(SubSeq(s, 1, Len(s) - 1))
    ELSE s

PathD == <<"/", "d">>
PathDSlash == <<"/", "d", "/">>
PathDX == <<"/", "d", "/", "x">>
PathDB == <<"/", "d", "b">>
PathO == <<"/", "o">>

-----------------------------------------------------------------------------
(* Lists *)

\* sum(f(x) for x in s)
RECURSIVE SumLeft(_)
SumLeft(s) == IF s = <<>> THEN 0 ELSE Head(s).amount_left + SumLeft(Tail(s))

\* the value a sort compares: key=lambda x: x.get(k, 0), negated for reverse=True
KeyOf(x, k) ==
    CASE k = "added_on" -> x.added_on
      [] k = "added_on_desc" -> 0 - x.added_on
      [] k = "total_size" -> x.total_size

\* list.sort / sorted: stable by key (equal keys keep their order)
RECURSIVE InsertByKey(_, _, _)
InsertByKey(x, s, k) ==
    IF s = <<>> THEN <<x>>
    ELSE IF KeyOf(x, k) < KeyOf(Head(s), k) THEN <<x>> \o s
    ELSE <<Head(s)>> \o InsertByKey(x, Tail(s), k)

RECURSIVE SortBy(_, _)
SortBy(s, k) ==
    IF s = <<>> THEN <<>>
    ELSE InsertByKey(s[Len(s)], SortBy(SubSeq(s, 1, Len(s) - 1), k), k)

-----------------------------------------------------------------------------
(* State classification *)

\* QbSmartQueue._ACTIVE_DL_STATES
ACTIVE_DL_STATES ==
    {"downloading", "stalledDL", "metaDL", "checkingDL", "forcedDL", "allocating"}

\* QbSmartQueue._PAUSED_DL_STATES
PAUSED_DL_STATES == {"pausedDL", "stoppedDL", "queuedDL"}

\* a classifier that takes every tag it does not know for an active one
IsActiveUnlessKnown(x) == x.state \notin PAUSED_DL_STATES \cup {"uploading", "stalledUP"}

\* step 3: "if state in self._ACTIVE_DL_STATES"
IsActive(x) == x.state \in ACTIVE_DL_STATES
IsPaused(x) == x.state \in PAUSED_DL_STATES

ActiveTorrents(ts) == SelectSeq(ts, IsActive)
PausedTorrents(ts) == SelectSeq(ts, IsPaused)

Hashes(s) == {s[k].hash : k \in DOMAIN s}

-----------------------------------------------------------------------------
(* Configuration *)

\* init_plugin: "config.get(k) or default" replaces a falsy value by the default
OrDefaultNum(v, d) == IF v = 0 THEN d ELSE v
OrDefaultSeq(v, d) == IF v = <<>> THEN d ELSE v
OrDefaultStr(v, d) == IF v = "" THEN d ELSE v

InitPlugin(config) ==
    [ enabled |-> config.enabled,
      notify |-> config.notify,
      onlyonce |-> FALSE,
      cron |-> OrDefaultSeq(config.cron, <<"*">>),
      max_capacity_gb |-> OrDefaultNum(config.max_capacity_gb, 35),
      priority_mode |-> OrDefaultStr(config.priority_mode, "age"),
      enable_smart_skip |-> config.enable_smart_skip,
      enable_low_speed_tolerance |-> config.enable_low_speed_tolerance,
      low_speed_threshold_kib |-> OrDefaultNum(config.low_speed_threshold_kib, 100),
      low_speed_stalled_only |-> config.low_speed_stalled_only,
      mponly |-> config.mponly,
      download_paths |-> OrDefaultSeq(config.download_paths, <<>>),
      min_free_gb |-> OrDefaultNum(config.min_free_gb, 5),
      downloaders |-> OrDefaultSeq(config.downloaders, <<>>) ]

\* get_state
GetState == cfg.enabled /\ cfg.cron # <<>> /\ cfg.downloaders # <<>>

-----------------------------------------------------------------------------
(* Disk space ledger *)

\* the entry of disk for a path that is missing or cannot be read
Unreadable == -1

\* SystemUtils.free_space: the free bytes of the path, 0 when the query fails
FreeSpace(p) == IF disk[p] = Unreadable THEN 0 ELSE disk[p]

\* _get_free_space_map: one sample per monitored path; empty without paths
GetFreeSpaceMap == [p \in Range(cfg.download_paths) |-> FreeSpace(p)]

\* paths flagged low only when their sample is positive
LowSpacePathsIfSampled(free_map) ==
    IF DOMAIN free_map = {} THEN <<>>
    ELSE SelectSeq(cfg.download_paths,
                   LAMBDA dp : 0 < free_map[dp] /\ free_map[dp] < cfg.min_free_gb)

\* low_space_paths of _manage_single_downloader, in the order of the map
LowSpacePaths(free_map) ==
    IF DOMAIN free_map = {} THEN <<>>
    ELSE SelectSeq(cfg.download_paths, LAMBDA dp : free_map[dp] < cfg.min_free_gb)

\* a match on equal paths only
IsPathUnderPathsExact(save_path, paths) ==
    IF save_path = <<>> \/ paths = <<>> THEN FALSE
    ELSE \E k \in DOMAIN paths : save_path = RStripSlash(paths[k])

\* _is_path_under_paths
IsPathUnderPaths(save_path, paths) ==
    IF save_path = <<>> \/ paths = <<>> THEN FALSE
    ELSE \E k \in DOMAIN paths :
            LET normalized_path == RStripSlash(paths[k])
            IN  \/ save_path = normalized_path
                \/ StartsWith(save_path, normalized_path \o <<"/">>)

\* a lookup that takes any monitored path the save path begins with
MatchDownloadPathPrefix(save_path) ==
    IF cfg.download_paths = <<>> \/ save_path = <<>> THEN None
    ELSE LET hits == {k \in DOMAIN cfg.download_paths :
                        StartsWith(save_path, RStripSlash(cfg.download_paths[k]))}
         IN  IF hits = {} THEN None
             ELSE cfg.download_paths[CHOOSE k \in hits : \A j \in hits : k <= j]

\* _match_download_path: the first monitored path that matches, or None
MatchDownloadPath(save_path) ==
    IF cfg.download_paths = <<>> \/ save_path = <<>> THEN None
    ELSE LET hits == {k \in DOMAIN cfg.download_paths :
                        \/ save_path = cfg.download_paths[k]
                        \/ StartsWith(save_path,
                                      RStripSlash(cfg.download_paths[k]) \o <<"/">>)}
         IN  IF hits = {} THEN None
             ELSE cfg.download_paths[CHOOSE k \in hits : \A j \in hits : k <= j]

\* a budget check that looks at the free space only, not at what is needed
CheckDiskBudgetIgnoringNeeded(save_path, needed, free_map) ==
    IF DOMAIN free_map = {} THEN TRUE
    ELSE LET matched_path == MatchDownloadPath(save_path)
         IN  IF matched_path = None THEN TRUE
             ELSE free_map[matched_path] >= cfg.min_free_gb

\* _check_disk_budget
CheckDiskBudget(save_path, needed, free_map) ==
    IF DOMAIN free_map = {} THEN TRUE
    ELSE LET matched_path == MatchDownloadPath(save_path)
         IN  IF matched_path = None THEN TRUE
             ELSE (free_map[matched_path] - needed) >= cfg.min_free_gb

\* a deduction that leaves the map as it is
DeductDiskBudgetKept(save_path, used, free_map) == free_map

\* _deduct_disk_budget: the map after the deduction
DeductDiskBudget(save_path, used, free_map) ==
    LET matched_path == MatchDownloadPath(save_path)
    IN  IF matched_path # None /\ matched_path \in DOMAIN free_map
        THEN [free_map EXCEPT ![matched_path] = @ - used]
        ELSE free_map

-----------------------------------------------------------------------------
(* Low-speed retention *)

\* _get_download_speed_bps
GetDownloadSpeedBps(torrent) == IF torrent.dlspeed > 0 THEN torrent.dlspeed ELSE 0

\* _is_low_speed_torrent
IsLowSpeedTorrent(torrent) ==
    IF ~cfg.enable_low_speed_tolerance THEN FALSE
    ELSE IF cfg.low_speed_threshold_kib <= 0 THEN FALSE
    ELSE IF cfg.low_speed_stalled_only /\ torrent.state # "stalledDL" THEN FALSE
    ELSE GetDownloadSpeedBps(torrent) <= cfg.low_speed_threshold_kib * 1024

-----------------------------------------------------------------------------
(* The stages of _manage_single_downloader, as functions of its locals *)

\* a disk protection that stops every active torrent once any path is low
DiskStopIdsAnyPath(ts, low_space_paths) ==
    LET Hit(t) == t.state \in ACTIVE_DL_STATES /\ t.hash # ""
        hits == SelectSeq(ts, Hit)
    IN  [k \in DOMAIN hits |-> hits[k].hash]

\* a disk protection that stops every torrent under a low path, whatever its state
DiskStopIdsAnyState(ts, low_space_paths) ==
    LET Hit(t) == /\ t.save_path # <<>>
                  /\ IsPathUnderPaths(t.save_path, low_space_paths)
                  /\ t.hash # ""
        hits == SelectSeq(ts, Hit)
    IN  [k \in DOMAIN hits |-> hits[k].hash]

\* step 2: the ids Disk Protection asks the downloader to stop
DiskStopIds(ts, low_space_paths) ==
    LET Hit(t) == /\ t.state \in ACTIVE_DL_STATES
                  /\ t.save_path # <<>>
                  /\ IsPathUnderPaths(t.save_path, low_space_paths)
                  /\ t.hash # ""
        hits == SelectSeq(ts, Hit)
    IN  [k \in DOMAIN hits |-> hits[k].hash]

\* candidates in the order newest first, whatever their download rate
OverflowCandidatesNewestFirst(active_torrents) ==
    SortBy(active_torrents, "added_on_desc")

\* step 4: the order in which the Overflow Resolver considers the active torrents
OverflowCandidates(active_torrents) ==
    LET overflow_candidates == SortBy(active_torrents, "added_on_desc")
        IsNormal(t) == ~IsLowSpeedTorrent(t)
    IN  IF cfg.enable_low_speed_tolerance /\ cfg.low_speed_threshold_kib > 0
        THEN SelectSeq(overflow_candidates, IsNormal)
                \o SelectSeq(overflow_candidates, IsLowSpeedTorrent)
        ELSE overflow_candidates

\* a loop that tests the total only after it has stopped a candidate
RECURSIVE OverflowWalkLate(_, _)
OverflowWalkLate(cands, acc) ==
    IF cands = <<>> THEN acc
    ELSE LET t == Head(cands)
             next == [ids |-> Append(acc.ids, t.hash),
                      active_left |-> acc.active_left - t.amount_left]
         IN  IF t.hash = "" THEN OverflowWalkLate(Tail(cands), acc)
             ELSE IF next.active_left < cfg.max_capacity_gb THEN next
             ELSE OverflowWalkLate(Tail(cands), next)

\* step 4: the loop over the candidates; acc = [ids, active_left]
RECURSIVE OverflowWalk(_, _)
OverflowWalk(cands, acc) ==
    IF cands = <<>> THEN acc
    ELSE IF acc.active_left <= cfg.max_capacity_gb THEN acc
    ELSE LET t == Head(cands)
         IN  IF t.hash = "" THEN OverflowWalk(Tail(cands), acc)
             ELSE OverflowWalk(Tail(cands),
                      [ids |-> Append(acc.ids, t.hash),
                       active_left |-> acc.active_left - t.amount_left])

\* a queue sorted by age whatever the priority mode
SortPausedByAge(paused_torrents) == SortBy(paused_torrents, "added_on")

\* step 5: the sorted waiting queue
SortPaused(paused_torrents) ==
    IF cfg.priority_mode = "size"
    THEN SortBy(paused_torrents, "total_size")
    ELSE SortBy(paused_torrents, "added_on")

\* the size branch with the flag never set
SmartSkipNever == FALSE

\* the size branch with the flag always set
SmartSkipAlways == TRUE

\* step 6: "if self._enable_smart_skip" of the size branch
SmartSkip == cfg.enable_smart_skip

\* the capacity test without the candidate's own bytes
FitsCapacityIgnoringCandidate(active_left, t_left) == active_left <= cfg.max_capacity_gb

\* step 6: "if active_left + t_left <= max_capacity_bytes"
FitsCapacity(active_left, t_left) == active_left + t_left <= cfg.max_capacity_gb

\* an admission loop that ends at the first candidate failing the disk check
RECURSIVE AdmitWalkStopOnDisk(_, _, _)
AdmitWalkStopOnDisk(queue, low_space_paths, acc) ==
    IF queue = <<>> THEN acc
    ELSE
      LET t == Head(queue)
          rest == Tail(queue)
      IN  IF /\ low_space_paths # <<>>
             /\ t.save_path # <<>>
             /\ IsPathUnderPaths(t.save_path, low_space_paths)
          THEN AdmitWalkStopOnDisk(rest, low_space_paths, acc)
          ELSE IF t.amount_left = 0
          THEN AdmitWalkStopOnDisk(rest, low_space_paths,
                   IF t.hash # ""
                   THEN [acc EXCEPT !.release_ids = Append(@, t.hash)]
                   ELSE acc)
          ELSE IF ~CheckDiskBudget(t.save_path, t.amount_left, acc.free_map)
          THEN [acc EXCEPT !.skipped_disk = Append(@, t.hash)]
          ELSE IF FitsCapacity(acc.active_left, t.amount_left)
          THEN AdmitWalkStopOnDisk(rest, low_space_paths,
                   IF t.hash # ""
                   THEN [acc EXCEPT
                           !.release_ids = Append(@, t.hash),
                           !.active_left = @ + t.amount_left,
                           !.free_map = DeductDiskBudget(t.save_path, t.amount_left, @)]
                   ELSE acc)
          ELSE IF SmartSkip
          THEN AdmitWalkStopOnDisk(rest, low_space_paths,
                   [acc EXCEPT !.skipped = Append(@, t.hash)])
          ELSE acc

\* an admission loop that puts a finished candidate through the disk check and
\* the capacity test like any other
RECURSIVE AdmitWalkNoShortcut(_, _, _)
AdmitWalkNoShortcut(queue, low_space_paths, acc) ==
    IF queue = <<>> THEN acc
    ELSE
      LET t == Head(queue)
          rest == Tail(queue)
      IN  IF /\ low_space_paths # <<>>
             /\ t.save_path # <<>>
             /\ IsPathUnderPaths(t.save_path, low_space_paths)
          THEN AdmitWalkNoShortcut(rest, low_space_paths, acc)
          ELSE IF ~CheckDiskBudget(t.save_path, t.amount_left, acc.free_map)
          THEN AdmitWalkNoShortcut(rest, low_space_paths,
                   [acc EXCEPT !.skipped_disk = Append(@, t.hash)])
          ELSE IF FitsCapacity(acc.active_left, t.amount_left)
          THEN AdmitWalkNoShortcut(rest, low_space_paths,
                   IF t.hash # ""
                   THEN [acc EXCEPT
                           !.release_ids = Append(@, t.hash),
                           !.active_left = @ + t.amount_left,
                           !.free_map = DeductDiskBudget(t.save_path, t.amount_left, @)]
                   ELSE acc)
          ELSE IF SmartSkip
          THEN AdmitWalkNoShortcut(rest, low_space_paths,
                   [acc EXCEPT !.skipped = Append(@, t.hash)])
          ELSE acc

\* step 6: the admission loop.  acc = [active_left, free_map, release_ids,
\* skipped, skipped_disk]; released holds the names of release_ids
RECURSIVE AdmitWalk(_, _, _)
AdmitWalk(queue, low_space_paths, acc) ==
    IF queue = <<>> THEN acc
    ELSE
      LET t == Head(queue)
          rest == Tail(queue)
      IN  IF /\ low_space_paths # <<>>
             /\ t.save_path # <<>>
             /\ IsPathUnderPaths(t.save_path, low_space_paths)
          THEN AdmitWalk(rest, low_space_paths, acc)
          ELSE IF t.amount_left = 0
          THEN AdmitWalk(rest, low_space_paths,
                   IF t.hash # ""
                   THEN [acc EXCEPT !.release_ids = Append(@, t.hash)]
                   ELSE acc)
          ELSE IF ~CheckDiskBudget(t.save_path, t.amount_left, acc.free_map)
          THEN AdmitWalk(rest, low_space_paths,
                   [acc EXCEPT !.skipped_disk = Append(@, t.hash)])
          ELSE IF FitsCapacity(acc.active_left, t.amount_left)
          THEN AdmitWalk(rest, low_space_paths,
                   IF t.hash # ""
                   THEN [acc EXCEPT
                           !.release_ids = Append(@, t.hash),
                           !.active_left = @ + t.amount_left,
                           !.free_map = DeductDiskBudget(t.save_path, t.amount_left, @)]
                   ELSE acc)
          ELSE IF SmartSkip
          THEN AdmitWalk(rest, low_space_paths,
                   [acc EXCEPT !.skipped = Append(@, t.hash)])
          ELSE acc

\* a guard that gives up when the head of the queue cannot be admitted
GuardHeadOnly(queue, low_space_paths, acc) ==
    IF queue = <<>> THEN acc
    ELSE LET candidate == Head(queue)
         IN  IF \/ /\ low_space_paths # <<>>
                   /\ candidate.save_path # <<>>
                   /\ IsPathUnderPaths(candidate.save_path, low_space_paths)
                \/ ~CheckDiskBudget(candidate.save_path, candidate.amount_left,
                                    acc.free_map)
                \/ candidate.hash = ""
             THEN acc
             ELSE [acc EXCEPT
                     !.release_ids = Append(@, candidate.hash),
                     !.forced = Append(@, candidate.hash),
                     !.free_map = DeductDiskBudget(candidate.save_path,
                                                   candidate.amount_left, @)]

\* a guard that does not pass over the candidates under a low path
RECURSIVE GuardWalkAnyPath(_, _, _)
GuardWalkAnyPath(queue, low_space_paths, acc) ==
    IF queue = <<>> THEN acc
    ELSE
      LET candidate == Head(queue)
          rest == Tail(queue)
      IN  IF ~CheckDiskBudget(candidate.save_path, candidate.amount_left,
                                   acc.free_map)
          THEN GuardWalkAnyPath(rest, low_space_paths, acc)
          ELSE IF candidate.hash = ""
          THEN GuardWalkAnyPath(rest, low_space_paths, acc)
          ELSE [acc EXCEPT
                  !.release_ids = Append(@, candidate.hash),
                  !.forced = Append(@, candidate.hash),
                  !.free_map = DeductDiskBudget(candidate.save_path,
                                                candidate.amount_left, @)]

\* step 7: the loop of the anti-deadlock guard, which stops at its first admission
RECURSIVE GuardWalk(_, _, _)
GuardWalk(queue, low_space_paths, acc) ==
    IF queue = <<>> THEN acc
    ELSE
      LET candidate == Head(queue)
          rest == Tail(queue)
      IN  IF /\ low_space_paths # <<>>
             /\ candidate.save_path # <<>>
             /\ IsPathUnderPaths(candidate.save_path, low_space_paths)
          THEN GuardWalk(rest, low_space_paths, acc)
          ELSE IF ~CheckDiskBudget(candidate.save_path, candidate.amount_left,
                                   acc.free_map)
          THEN GuardWalk(rest, low_space_paths, acc)
          ELSE IF candidate.hash = ""
          THEN GuardWalk(rest, low_space_paths, acc)
          ELSE [acc EXCEPT
                  !.release_ids = Append(@, candidate.hash),
                  !.forced = Append(@, candidate.hash),
                  !.free_map = DeductDiskBudget(candidate.save_path,
                                                candidate.amount_left, @)]

\* a guard that runs only after a size skip was recorded
AntiDeadlockIfSkipped(active_torrents, queue, low_space_paths, acc) ==
    IF active_torrents = <<>> /\ acc.release_ids = <<>> /\ acc.skipped # <<>>
    THEN GuardWalk(queue, low_space_paths, acc)
    ELSE acc

\* a guard that runs although a torrent is active
AntiDeadlockWhileActive(active_torrents, queue, low_space_paths, acc) ==
    IF acc.release_ids = <<>> /\ queue # <<>>
    THEN GuardWalk(queue, low_space_paths, acc)
    ELSE acc

\* a pass without the guard
AntiDeadlockOff(active_torrents, queue, low_space_paths, acc) == acc

\* step 7: the guard runs only with no active torrent, nothing released and a
\* non-empty waiting queue
AntiDeadlock(active_torrents, queue, low_space_paths, acc) ==
    IF active_torrents = <<>> /\ acc.release_ids = <<>> /\ queue # <<>>
    THEN GuardWalk(queue, low_space_paths, acc)
    ELSE acc

\* steps 5 to 7 on the classified snapshot
Admission(active_torrents, paused_torrents, active_left, free_map, low_space_paths) ==
    LET queue == SortPaused(paused_torrents)
        acc0 == [active_left |-> active_left, free_map |-> free_map,
                 release_ids |-> <<>>, skipped |-> <<>>, skipped_disk |-> <<>>,
                 forced |-> <<>>]
    IN  AntiDeadlock(active_torrents, queue, low_space_paths,
                     AdmitWalk(queue, low_space_paths, acc0))

\* step 2: the message posted when Disk Protection stopped torrents
DiskMessage(service_name, low_space_paths, paused_by_disk) ==
    [ service |-> service_name, low_space_paths |-> low_space_paths,
      paused_by_disk |-> paused_by_disk ]

\* a summary sent only when something was released
NotifyIfReleased(released, paused_by_overflow, skipped_disk) ==
    cfg.notify /\ released # <<>>

\* step 8: the condition under which the summary of the pass is posted
ShouldNotify(released, paused_by_overflow, skipped_disk) ==
    cfg.notify /\ (released # <<>> \/ paused_by_overflow # <<>> \/ skipped_disk # <<>>)

\* step 8: the summary of the pass; torrents are named by their hashes
SummaryMessage(service_name, paused_by_overflow, adm) ==
    [ service |-> service_name, paused_by_overflow |-> paused_by_overflow,
      released |-> adm.release_ids, skipped |-> adm.skipped,
      skipped_disk |-> adm.skipped_disk, active_left |-> adm.active_left ]

-----------------------------------------------------------------------------
(* The downloader: stop_torrents and start_torrents move a torrent between  *)
(* the paused and the downloading state                                     *)

\* _stop_torrent_ids -> downloader.stop_torrents(ids)
StopTorrents(ts, ids) ==
    [k \in DOMAIN ts |->
        IF ts[k].hash \in Range(ids) THEN [ts[k] EXCEPT !.state = "pausedDL"] ELSE ts[k]]

\* _start_torrent_ids -> downloader.start_torrents(ids)
StartTorrents(ts, ids) ==
    [k \in DOMAIN ts |->
        IF ts[k].hash \in Range(ids) THEN [ts[k] EXCEPT !.state = "downloading"] ELSE ts[k]]

-----------------------------------------------------------------------------
(* manage_queue and the handlers that call it *)

\* the locals of a thread that is not inside _manage_single_downloader
NoLocals ==
    [ services |-> <<>>, visited |-> <<>>, snap0 |-> <<>>, snap1 |-> <<>>,
      torrents |-> <<>>, free_space_map |-> <<>>,
      low_space_paths |-> <<>>, disk_ids |-> <<>>, disk_ok |-> TRUE,
      overflow_cands |-> <<>>, overflow_ids |-> <<>>, overflow_ok |-> TRUE,
      refetched |-> TRUE, disk_posted |-> <<>>, log |-> <<>> ]

NoPass == [ inst |-> 0, outcome |-> "none" ]

\* the result of steps 5 to 7 before they have run
NoAdmission ==
    [ active_left |-> 0, free_map |-> <<>>, release_ids |-> <<>>, skipped |-> <<>>,
      skipped_disk |-> <<>>, forced |-> <<>> ]

\* service_infos: the configured downloaders that are connected qBittorrent services
ServiceInfos == SelectSeq(cfg.downloaders, LAMBDA i : connected[i])

\* handlers run on the threads of the host's pools; the idle threads are
\* interchangeable, so a new call takes the lowest one
FreeThread(t) == pc[t] = "idle" /\ \A u \in Threads : pc[u] = "idle" => t <= u

CallManageQueue(t) ==
    /\ pc' = [pc EXCEPT ![t] = "lock"]
    /\ triggered' = triggered + 1

\* a scheduled job fires: the periodic service of get_service, registered only
\* when get_state() holds, or the run-once job that init_plugin added, which
\* fires once
TimerFire(t) ==
    /\ FreeThread(t)
    /\ budget > 0
    /\ budget' = budget - 1
    /\ \E job \in {"cron", "date"} :
          IF job = "cron"
          THEN GetState /\ UNCHANGED scheduler
          ELSE scheduler /\ scheduler' = FALSE
    /\ CallManageQueue(t)
    /\ UNCHANGED <<saved_config, cfg, torrents, connected, disk, lock, loc, runs, done>>

\* on_download_added
OnDownloadAdded(t) ==
    /\ FreeThread(t)
    /\ budget > 0
    /\ budget' = budget - 1
    /\ IF ~cfg.enabled
       THEN UNCHANGED <<pc, triggered>>
       ELSE CallManageQueue(t)
    /\ UNCHANGED <<saved_config, scheduler, cfg, torrents, connected, disk, lock, loc, runs, done>>

\* handle_smart_queue_command, for an event whose data names the action
HandleSmartQueueCommand(t) ==
    /\ FreeThread(t)
    /\ budget > 0
    /\ budget' = budget - 1
    /\ \E action \in {"smart_queue", "other"} :
          IF ~cfg.enabled \/ action # "smart_queue"
          THEN UNCHANGED <<pc, triggered>>
          ELSE CallManageQueue(t)
    /\ UNCHANGED <<saved_config, scheduler, cfg, torrents, connected, disk, lock, loc, runs, done>>

\* manage_queue entered without waiting for the lock
AcquireWithoutLock(t) ==
    /\ pc[t] = "lock"
    /\ lock' = TRUE
    /\ loc' = [loc EXCEPT ![t] = [NoLocals EXCEPT !.services = ServiceInfos]]
    /\ pc' = [pc EXCEPT ![t] = IF ServiceInfos = <<>> THEN "unlock" ELSE "fetch"]
    /\ UNCHANGED <<saved_config, scheduler, cfg, torrents, connected, disk, budget, triggered, runs, done>>

\* manage_queue that returns at once when a run is already in progress
AcquireOrSkip(t) ==
    /\ pc[t] = "lock"
    /\ IF lock
       THEN /\ pc' = [pc EXCEPT ![t] = "idle"]
            /\ UNCHANGED <<lock, loc>>
       ELSE /\ lock' = TRUE
            /\ loc' = [loc EXCEPT ![t] = [NoLocals EXCEPT !.services = ServiceInfos]]
            /\ pc' = [pc EXCEPT ![t] = IF ServiceInfos = <<>> THEN "unlock" ELSE "fetch"]
    /\ UNCHANGED <<saved_config, scheduler, cfg, torrents, connected, disk, budget, triggered, runs, done>>

\* manage_queue: "with lock:" entered, service_infos read
Acquire(t) ==
    /\ pc[t] = "lock"
    /\ ~lock
    /\ lock' = TRUE
    /\ loc' = [loc EXCEPT ![t] = [NoLocals EXCEPT !.services = ServiceInfos]]
    /\ pc' = [pc EXCEPT ![t] = IF ServiceInfos = <<>> THEN "unlock" ELSE "fetch"]
    /\ UNCHANGED <<saved_config, scheduler, cfg, torrents, connected, disk, budget, triggered, runs, done>>

\* manage_queue: "with lock:" left
Release(t) ==
    /\ pc[t] = "unlock"
    /\ lock' = FALSE
    /\ pc' = [pc EXCEPT ![t] = "idle"]
    /\ loc' = [loc EXCEPT ![t] = NoLocals]
    /\ runs' = runs + 1
    /\ UNCHANGED <<saved_config, scheduler, cfg, torrents, connected, disk, budget, triggered, done>>

\* the for loop of manage_queue moves to the next service; rec describes the
\* pass that has just ended
EndInstance(t, rec) ==
    LET rest == Tail(loc[t].services)
    IN  /\ done' = rec
        /\ loc' = [loc EXCEPT ![t] =
                     [NoLocals EXCEPT !.services = rest,
                                      !.visited = Append(loc[t].visited,
                                           [inst |-> rec.inst, outcome |-> rec.outcome])]]
        /\ pc' = [pc EXCEPT ![t] = IF rest = <<>> THEN "unlock" ELSE "fetch"]

PassRecord(t, outcome) ==
    [ inst |-> Head(loc[t].services), outcome |-> outcome, thread |-> t,
      snap0 |-> loc[t].snap0, snap1 |-> loc[t].snap1, free_space_map |-> loc[t].free_space_map,
      low_space_paths |-> loc[t].low_space_paths,
      disk_ids |-> loc[t].disk_ids, disk_ok |-> loc[t].disk_ok,
      overflow_cands |-> loc[t].overflow_cands,
      overflow_ids |-> loc[t].overflow_ids, overflow_ok |-> loc[t].overflow_ok,
      refetched |-> loc[t].refetched,
      torrents |-> loc[t].torrents,
      disk_posted |-> loc[t].disk_posted, posted |-> <<>>,
      active_ids |-> {}, paused_ids |-> {}, log |-> loc[t].log,
      adm |-> NoAdmission, start_ok |-> TRUE,
      post |-> torrents[Head(loc[t].services)] ]

AbortRecord(t, outcome) == [ inst |-> Head(loc[t].services), outcome |-> outcome ]

\* the pass returned right after its first fetch
FetchAbortRecord(t, outcome) ==
    [ inst |-> Head(loc[t].services), outcome |-> outcome, log |-> <<"fetch">> ]

\* an exception that is not caught inside the loop and ends the run
RaiseUncaught(t) ==
    /\ pc[t] \in {"fetch", "disk", "overflow", "admit"}
    /\ done' = AbortRecord(t, "raised")
    /\ loc' = [loc EXCEPT ![t] =
                 [NoLocals EXCEPT !.visited =
                     Append(loc[t].visited,
                            [inst |-> Head(loc[t].services), outcome |-> "raised"])]]
    /\ pc' = [pc EXCEPT ![t] = "unlock"]
    /\ UNCHANGED <<saved_config, scheduler, cfg, torrents, connected, disk, lock, budget, triggered, runs>>

\* lock.acquire() and lock.release() around the loop in place of "with lock:":
\* an exception leaves manage_queue with the lock held
RaiseHoldingLock(t) ==
    /\ pc[t] \in {"fetch", "disk", "overflow", "admit"}
    /\ done' = AbortRecord(t, "raised")
    /\ loc' = [loc EXCEPT ![t] = NoLocals]
    /\ pc' = [pc EXCEPT ![t] = "idle"]
    /\ UNCHANGED <<saved_config, scheduler, cfg, torrents, connected, disk, lock, budget, triggered, runs>>

\* an exception inside _manage_single_downloader, caught by manage_queue
Raise(t) ==
    /\ pc[t] \in {"fetch", "disk", "overflow", "admit"}
    /\ EndInstance(t, AbortRecord(t, "raised"))
    /\ UNCHANGED <<saved_config, scheduler, cfg, torrents, connected, disk, lock, budget, triggered, runs>>

\* a pass that starts from the snapshot the pass before it decided on
FetchLastSnapshot(t) ==
    /\ pc[t] = "fetch"
    /\ LET i == Head(loc[t].services)
           last == IF done.outcome = "completed" /\ done.torrents # <<>>
                   THEN done.torrents ELSE torrents[i]
       IN  \E error \in BOOLEAN :
              IF error
              THEN EndInstance(t, FetchAbortRecord(t, "fetch_error"))
              ELSE IF torrents[i] = <<>>
              THEN EndInstance(t, FetchAbortRecord(t, "no_torrents"))
              ELSE /\ loc' = [loc EXCEPT ![t] =
                                [@ EXCEPT !.snap0 = last,
                                          !.torrents = last,
                                          !.log = <<"fetch">>,
                                          !.free_space_map = GetFreeSpaceMap]]
                   /\ pc' = [pc EXCEPT ![t] = "disk"]
                   /\ UNCHANGED done
    /\ UNCHANGED <<saved_config, scheduler, cfg, torrents, connected, disk, lock, budget, triggered, runs>>

\* step 1: _fetch_torrents, then _get_free_space_map
Fetch(t) ==
    /\ pc[t] = "fetch"
    /\ LET i == Head(loc[t].services)
       IN  \E error \in BOOLEAN :
              IF error
              THEN EndInstance(t, FetchAbortRecord(t, "fetch_error"))
              ELSE IF torrents[i] = <<>>
              THEN EndInstance(t, FetchAbortRecord(t, "no_torrents"))
              ELSE /\ loc' = [loc EXCEPT ![t] =
                                [@ EXCEPT !.snap0 = torrents[i],
                                          !.torrents = torrents[i],
                                          !.log = <<"fetch">>,
                                          !.free_space_map = GetFreeSpaceMap]]
                   /\ pc' = [pc EXCEPT ![t] = "disk"]
                   /\ UNCHANGED done
    /\ UNCHANGED <<saved_config, scheduler, cfg, torrents, connected, disk, lock, budget, triggered, runs>>

\* a disk protection that goes on with the snapshot it had before its stop request
DiskProtectKeepSnapshot(t) ==
    /\ pc[t] = "disk"
    /\ LET i == Head(loc[t].services)
           low_space_paths == LowSpacePaths(loc[t].free_space_map)
       IN  \E ok \in BOOLEAN, refetch \in BOOLEAN,
              ids \in {IF low_space_paths # <<>>
                       THEN DiskStopIds(loc[t].torrents, low_space_paths)
                       ELSE <<>>} :
              /\ ids = <<>> => ok /\ refetch
              /\ torrents' = IF ids # <<>> /\ ok
                             THEN [torrents EXCEPT ![i] = StopTorrents(@, ids)]
                             ELSE torrents
              /\ LET msgs == IF ids # <<>> /\ cfg.notify
                             THEN <<DiskMessage(i, low_space_paths, ids)>> ELSE <<>>
                     log == IF ids # <<>> THEN loc[t].log \o <<"stop", "fetch">>
                            ELSE loc[t].log
                     l == [loc[t] EXCEPT !.low_space_paths = low_space_paths,
                                         !.log = log,
                                         !.disk_ids = ids,
                                         !.disk_ok = ok,
                                         !.disk_posted = msgs,
                                         !.torrents = @]
                 IN  IF ~refetch
                     THEN EndInstance(t, [PassRecord(t, "refetch_failed") EXCEPT
                                            !.low_space_paths = low_space_paths,
                                            !.disk_ids = ids, !.disk_ok = ok,
                                            !.disk_posted = msgs, !.log = log])
                     ELSE /\ loc' = [loc EXCEPT ![t] = l]
                          /\ pc' = [pc EXCEPT ![t] = "overflow"]
                          /\ UNCHANGED done
    /\ UNCHANGED <<saved_config, scheduler, cfg, connected, disk, lock, budget, triggered, runs>>

\* step 2: the disk protection stage; the stop request may be without effect
\* and the re-fetch may return nothing
DiskProtect(t) ==
    /\ pc[t] = "disk"
    /\ LET i == Head(loc[t].services)
           low_space_paths == LowSpacePaths(loc[t].free_space_map)
       IN  \E ok \in BOOLEAN, refetch \in BOOLEAN,
              ids \in {IF low_space_paths # <<>>
                       THEN DiskStopIds(loc[t].torrents, low_space_paths)
                       ELSE <<>>} :
              /\ ids = <<>> => ok /\ refetch
              /\ torrents' = IF ids # <<>> /\ ok
                             THEN [torrents EXCEPT ![i] = StopTorrents(@, ids)]
                             ELSE torrents
              /\ LET msgs == IF ids # <<>> /\ cfg.notify
                             THEN <<DiskMessage(i, low_space_paths, ids)>> ELSE <<>>
                     log == IF ids # <<>> THEN loc[t].log \o <<"stop", "fetch">>
                            ELSE loc[t].log
                     l == [loc[t] EXCEPT !.low_space_paths = low_space_paths,
                                         !.log = log,
                                         !.disk_ids = ids,
                                         !.disk_ok = ok,
                                         !.disk_posted = msgs,
                                         !.torrents = IF ids # <<>>
                                                      THEN torrents'[i] ELSE @]
                 IN  IF ~refetch
                     THEN EndInstance(t, [PassRecord(t, "refetch_failed") EXCEPT
                                            !.low_space_paths = low_space_paths,
                                            !.disk_ids = ids, !.disk_ok = ok,
                                            !.disk_posted = msgs, !.log = log])
                     ELSE /\ loc' = [loc EXCEPT ![t] = l]
                          /\ pc' = [pc EXCEPT ![t] = "overflow"]
                          /\ UNCHANGED done
    /\ UNCHANGED <<saved_config, scheduler, cfg, connected, disk, lock, budget, triggered, runs>>

\* an overflow resolver that goes on with the lists it had before its stop request
OverflowWithoutRefetch(t) ==
    /\ pc[t] = "overflow"
    /\ LET i == Head(loc[t].services)
           active_torrents == ActiveTorrents(loc[t].torrents)
           active_left == SumLeft(active_torrents)
           over == active_left > cfg.max_capacity_gb
           cands == IF over THEN OverflowCandidates(active_torrents) ELSE <<>>
       IN  \E ok \in BOOLEAN, refetch \in BOOLEAN,
              walk \in {OverflowWalk(cands, [ids |-> <<>>, active_left |-> active_left])} :
              /\ walk.ids = <<>> => ok /\ refetch
              /\ torrents' = IF walk.ids # <<>> /\ ok
                             THEN [torrents EXCEPT ![i] = StopTorrents(@, walk.ids)]
                             ELSE torrents
              /\ loc' = [loc EXCEPT ![t] =
                          [@ EXCEPT !.snap1 = loc[t].torrents,
                                    !.overflow_cands = [k \in DOMAIN cands |-> cands[k].hash],
                                    !.overflow_ids = walk.ids,
                                    !.overflow_ok = ok,
                                    !.refetched = refetch,
                                    !.log = IF walk.ids = <<>> THEN @ \o <<"classify">>
                                            ELSE @ \o <<"classify", "stop">>,
                                    !.torrents = @]]
              /\ pc' = [pc EXCEPT ![t] = "admit"]
    /\ UNCHANGED <<saved_config, scheduler, cfg, connected, disk, lock, budget, triggered, runs, done>>

\* an overflow resolver that keeps its old lists when the re-fetch fails
OverflowKeepOnFailure(t) ==
    /\ pc[t] = "overflow"
    /\ LET i == Head(loc[t].services)
           active_torrents == ActiveTorrents(loc[t].torrents)
           active_left == SumLeft(active_torrents)
           over == active_left > cfg.max_capacity_gb
           cands == IF over THEN OverflowCandidates(active_torrents) ELSE <<>>
       IN  \E ok \in BOOLEAN, refetch \in BOOLEAN,
              walk \in {OverflowWalk(cands, [ids |-> <<>>, active_left |-> active_left])} :
              /\ walk.ids = <<>> => ok /\ refetch
              /\ torrents' = IF walk.ids # <<>> /\ ok
                             THEN [torrents EXCEPT ![i] = StopTorrents(@, walk.ids)]
                             ELSE torrents
              /\ loc' = [loc EXCEPT ![t] =
                          [@ EXCEPT !.snap1 = loc[t].torrents,
                                    !.overflow_cands = [k \in DOMAIN cands |-> cands[k].hash],
                                    !.overflow_ids = walk.ids,
                                    !.overflow_ok = ok,
                                    !.refetched = refetch,
                                    !.log = IF walk.ids = <<>> THEN @ \o <<"classify">>
                                            ELSE @ \o <<"classify", "stop", "fetch",
                                                        "classify">>,
                                    !.torrents = IF walk.ids = <<>> THEN @
                                                 ELSE IF refetch THEN torrents'[i]
                                                 ELSE @]]
              /\ pc' = [pc EXCEPT ![t] = "admit"]
    /\ UNCHANGED <<saved_config, scheduler, cfg, connected, disk, lock, budget, triggered, runs, done>>

\* steps 3 and 4: classification and the overflow resolver.  After a stop
\* request the lists are rebuilt from the re-fetched snapshot ("torrents or []")
Overflow(t) ==
    /\ pc[t] = "overflow"
    /\ LET i == Head(loc[t].services)
           active_torrents == ActiveTorrents(loc[t].torrents)
           active_left == SumLeft(active_torrents)
           over == active_left > cfg.max_capacity_gb
           cands == IF over THEN OverflowCandidates(active_torrents) ELSE <<>>
       IN  \E ok \in BOOLEAN, refetch \in BOOLEAN,
              walk \in {OverflowWalk(cands, [ids |-> <<>>, active_left |-> active_left])} :
              /\ walk.ids = <<>> => ok /\ refetch
              /\ torrents' = IF walk.ids # <<>> /\ ok
                             THEN [torrents EXCEPT ![i] = StopTorrents(@, walk.ids)]
                             ELSE torrents
              /\ loc' = [loc EXCEPT ![t] =
                          [@ EXCEPT !.snap1 = loc[t].torrents,
                                    !.overflow_cands = [k \in DOMAIN cands |-> cands[k].hash],
                                    !.overflow_ids = walk.ids,
                                    !.overflow_ok = ok,
                                    !.refetched = refetch,
                                    !.log = IF walk.ids = <<>> THEN @ \o <<"classify">>
                                            ELSE @ \o <<"classify", "stop", "fetch",
                                                        "classify">>,
                                    !.torrents = IF walk.ids = <<>> THEN @
                                                 ELSE IF refetch THEN torrents'[i]
                                                 ELSE <<>>]]
              /\ pc' = [pc EXCEPT ![t] = "admit"]
    /\ UNCHANGED <<saved_config, scheduler, cfg, connected, disk, lock, budget, triggered, runs, done>>

\* a pass that fetches the torrent list once more after its start request
AdmitThenRefetch(t) ==
    /\ pc[t] = "admit"
    /\ LET i == Head(loc[t].services)
           active_torrents == ActiveTorrents(loc[t].torrents)
           paused_torrents == PausedTorrents(loc[t].torrents)
       IN  \E ok \in BOOLEAN,
              adm \in {Admission(active_torrents, paused_torrents,
                                 SumLeft(active_torrents),
                                 loc[t].free_space_map, loc[t].low_space_paths)} :
              /\ adm.release_ids = <<>> => ok
              /\ torrents' = IF adm.release_ids # <<>> /\ ok
                             THEN [torrents EXCEPT ![i] = StartTorrents(@, adm.release_ids)]
                             ELSE torrents
              /\ EndInstance(t, [PassRecord(t, "completed") EXCEPT
                                   !.adm = adm, !.start_ok = ok,
                                   !.active_ids = Hashes(active_torrents),
                                   !.log = IF adm.release_ids = <<>>
                                           THEN loc[t].log \o <<"admit">>
                                           ELSE loc[t].log \o <<"admit", "start", "fetch">>,
                                   !.paused_ids = Hashes(paused_torrents),
                                   !.posted =
                                       IF ShouldNotify(adm.release_ids,
                                                       loc[t].overflow_ids, adm.skipped_disk)
                                       THEN <<SummaryMessage(i, loc[t].overflow_ids, adm)>>
                                       ELSE <<>>,
                                   !.post = torrents'[i]])
    /\ UNCHANGED <<saved_config, scheduler, cfg, connected, disk, lock, budget, triggered, runs>>

\* a pass that counts the active torrents of every instance against the cap
AdmitSharedCap(t) ==
    /\ pc[t] = "admit"
    /\ LET i == Head(loc[t].services)
           active_torrents == ActiveTorrents(loc[t].torrents)
           paused_torrents == PausedTorrents(loc[t].torrents)
       IN  \E ok \in BOOLEAN,
              adm \in {Admission(active_torrents, paused_torrents,
                                 SumLeft(ActiveTorrents(torrents[1] \o torrents[2])),
                                 loc[t].free_space_map, loc[t].low_space_paths)} :
              /\ adm.release_ids = <<>> => ok
              /\ torrents' = IF adm.release_ids # <<>> /\ ok
                             THEN [torrents EXCEPT ![i] = StartTorrents(@, adm.release_ids)]
                             ELSE torrents
              /\ EndInstance(t, [PassRecord(t, "completed") EXCEPT
                                   !.adm = adm, !.start_ok = ok,
                                   !.active_ids = Hashes(active_torrents),
                                   !.log = IF adm.release_ids = <<>>
                                           THEN loc[t].log \o <<"admit">>
                                           ELSE loc[t].log \o <<"admit", "start">>,
                                   !.paused_ids = Hashes(paused_torrents),
                                   !.posted =
                                       IF ShouldNotify(adm.release_ids,
                                                       loc[t].overflow_ids, adm.skipped_disk)
                                       THEN <<SummaryMessage(i, loc[t].overflow_ids, adm)>>
                                       ELSE <<>>,
                                   !.post = torrents'[i]])
    /\ UNCHANGED <<saved_config, scheduler, cfg, connected, disk, lock, budget, triggered, runs>>

\* steps 5 to 7 and the start request, which may be without effect.  The lists
\* active_torrents and paused_torrents are the classification of the snapshot
\* the pass holds, and active_left is the sum over active_torrents
Admit(t) ==
    /\ pc[t] = "admit"
    /\ LET i == Head(loc[t].services)
           active_torrents == ActiveTorrents(loc[t].torrents)
           paused_torrents == PausedTorrents(loc[t].torrents)
       IN  \E ok \in BOOLEAN,
              adm \in {Admission(active_torrents, paused_torrents,
                                 SumLeft(active_torrents),
                                 loc[t].free_space_map, loc[t].low_space_paths)} :
              /\ adm.release_ids = <<>> => ok
              /\ torrents' = IF adm.release_ids # <<>> /\ ok
                             THEN [torrents EXCEPT ![i] = StartTorrents(@, adm.release_ids)]
                             ELSE torrents
              /\ EndInstance(t, [PassRecord(t, "completed") EXCEPT
                                   !.adm = adm, !.start_ok = ok,
                                   !.active_ids = Hashes(active_torrents),
                                   !.log = IF adm.release_ids = <<>>
                                           THEN loc[t].log \o <<"admit">>
                                           ELSE loc[t].log \o <<"admit", "start">>,
                                   !.paused_ids = Hashes(paused_torrents),
                                   !.posted =
                                       IF ShouldNotify(adm.release_ids,
                                                       loc[t].overflow_ids, adm.skipped_disk)
                                       THEN <<SummaryMessage(i, loc[t].overflow_ids, adm)>>
                                       ELSE <<>>,
                                   !.post = torrents'[i]])
    /\ UNCHANGED <<saved_config, scheduler, cfg, connected, disk, lock, budget, triggered, runs>>

-----------------------------------------------------------------------------
(* Specifications *)

HashOf == <<"h1", "h2", "h3", "h4", "h5">>

AllPaths == {PathD, PathDSlash, PathDX, PathDB, PathO}

DefaultConfig ==
    [ enabled |-> TRUE, notify |-> TRUE, onlyonce |-> FALSE, cron |-> <<"*">>,
      max_capacity_gb |-> 20, priority_mode |-> "age", enable_smart_skip |-> TRUE,
      enable_low_speed_tolerance |-> TRUE, low_speed_threshold_kib |-> 100,
      low_speed_stalled_only |-> FALSE, mponly |-> TRUE,
      download_paths |-> <<PathD>>, min_free_gb |-> 5, downloaders |-> <<1>> ]

\* the torrents of the scheduling core: a torrent downloads with a little or much
\* left, or waits with nothing, a little or much left, under the monitored path
\* or outside of it, or it seeds under the monitored path
CoreTorrent(k) ==
    { [ hash |-> HashOf[k], state |-> c[1], amount_left |-> c[2], total_size |-> 30,
        added_on |-> k, save_path |-> c[3], dlspeed |-> 0 ] :
        c \in ({"downloading"} \X {10, 30} \X {PathDX, PathO})
                \cup ({"pausedDL"} \X {0, 10, 30} \X {PathDX, PathO})
                \cup {<<"uploading", 0, PathDX>>} }

\* the lists of n torrents
RECURSIVE CoreWorlds(_)
CoreWorlds(n) ==
    IF n = 0 THEN {<<>>}
    ELSE {Append(w, x) : w \in CoreWorlds(n - 1), x \in CoreTorrent(n)}

InitCommon ==
    /\ lock = FALSE
    /\ pc = [t \in Threads |-> "idle"]
    /\ loc = [t \in Threads |-> NoLocals]
    /\ triggered = 0
    /\ runs = 0
    /\ done = NoPass

Init ==
    /\ InitCommon
    /\ \E skip \in BOOLEAN :
          saved_config = [DefaultConfig EXCEPT !.enable_smart_skip = skip]
    /\ cfg = InitPlugin(saved_config)
    /\ scheduler = saved_config.onlyonce
    /\ \E w \in CoreWorlds(MaxTorrents) : torrents = [i \in Instances |-> IF i = 1 THEN w ELSE <<>>]
    /\ \E free \in {4, 20} : disk = [p \in AllPaths |-> IF p = PathD THEN free ELSE 100]
    /\ connected = [i \in Instances |-> TRUE]
    /\ budget = 1

\* two triggers in a row on the scheduling core, smart-skip enabled
InitTwice ==
    /\ InitCommon
    /\ saved_config = DefaultConfig
    /\ cfg = InitPlugin(saved_config)
    /\ scheduler = saved_config.onlyonce
    /\ \E w \in CoreWorlds(MaxTorrents) :
          torrents = [i \in Instances |-> IF i = 1 THEN w ELSE <<>>]
    /\ disk = [p \in AllPaths |-> IF p = PathD THEN 20 ELSE 100]
    /\ connected = [i \in Instances |-> TRUE]
    /\ budget = 2

\* a burst of triggers on two configured downloaders, either of which may be
\* disconnected: any one torrent on the first, one waiting torrent on the second
InitBurst ==
    /\ InitCommon
    /\ saved_config = [DefaultConfig EXCEPT !.downloaders = <<1, 2>>]
    /\ cfg = InitPlugin(saved_config)
    /\ scheduler = saved_config.onlyonce
    /\ connected \in [Instances -> BOOLEAN]
    /\ \E w1 \in CoreWorlds(1) :
          torrents = [i \in Instances |-> IF i = 1 THEN w1
                        ELSE << [ hash |-> HashOf[1], state |-> "pausedDL",
                                  amount_left |-> 10, total_size |-> 30, added_on |-> 1,
                                  save_path |-> PathO, dlspeed |-> 0 ] >>]
    /\ disk = [p \in AllPaths |-> IF p = PathD THEN 4 ELSE 100]
    /\ budget = MaxTriggers

\* one trigger with notifications switched on or off, on one torrent fewer
InitNotify ==
    /\ InitCommon
    /\ \E n \in BOOLEAN : saved_config = [DefaultConfig EXCEPT !.notify = n]
    /\ cfg = InitPlugin(saved_config)
    /\ scheduler = saved_config.onlyonce
    /\ \E w \in CoreWorlds(MaxTorrents - 1) :
          torrents = [i \in Instances |-> IF i = 1 THEN w ELSE <<>>]
    /\ \E free \in {4, 20} : disk = [p \in AllPaths |-> IF p = PathD THEN free ELSE 100]
    /\ connected = [i \in Instances |-> TRUE]
    /\ budget = 1

\* the state tags a torrent of the snapshot may carry: those of the two sets,
\* tags of torrents that do not download, a tag qBittorrent does not have and
\* a missing tag (t.get("state") is None)
AllTags ==
    ACTIVE_DL_STATES \cup PAUSED_DL_STATES
        \cup {"uploading", "stalledUP", "error", "missingFiles", "unknown", "None"}

StateTorrent(k) ==
    { [ hash |-> HashOf[k], state |-> tag, amount_left |-> 15, total_size |-> 30,
        added_on |-> k, save_path |-> PathO, dlspeed |-> 0 ] : tag \in AllTags }

RECURSIVE StateWorlds(_)
StateWorlds(n) ==
    IF n = 0 THEN {<<>>}
    ELSE {Append(w, x) : w \in StateWorlds(n - 1), x \in StateTorrent(n)}

\* one trigger on torrents of every state tag
InitStates ==
    /\ InitCommon
    /\ saved_config = DefaultConfig
    /\ cfg = InitPlugin(saved_config)
    /\ scheduler = saved_config.onlyonce
    /\ \E w \in StateWorlds(MaxTorrents - 1) :
          torrents = [i \in Instances |-> IF i = 1 THEN w ELSE <<>>]
    /\ disk = [p \in AllPaths |-> IF p = PathD THEN 20 ELSE 100]
    /\ connected = [i \in Instances |-> TRUE]
    /\ budget = 1

\* one trigger with the monitored path unreadable, short of space or roomy,
\* and a floor of 1 or 5
InitDisk ==
    /\ InitCommon
    /\ \E floor \in {1, 5} : saved_config = [DefaultConfig EXCEPT !.min_free_gb = floor]
    /\ cfg = InitPlugin(saved_config)
    /\ scheduler = saved_config.onlyonce
    /\ \E w \in CoreWorlds(MaxTorrents - 1) :
          torrents = [i \in Instances |-> IF i = 1 THEN w ELSE <<>>]
    /\ \E free \in {Unreadable, 4, 20} :
          disk = [p \in AllPaths |-> IF p = PathD THEN free ELSE 100]
    /\ connected = [i \in Instances |-> TRUE]
    /\ budget = 1

\* added_on of the k-th torrent of a snapshot that is not in the order of age
AddedOf == <<2, 3, 1, 5, 4>>

\* active torrents that download or stall, at the threshold rate or just above
\* it, with a little or much left
SpeedTorrent(k) ==
    { [ hash |-> HashOf[k], state |-> c[1], amount_left |-> c[3], total_size |-> 30,
        added_on |-> AddedOf[k], save_path |-> PathO, dlspeed |-> c[2] ] :
        c \in {"downloading", "stalledDL"} \X {102400, 102401} \X {10, 30} }

RECURSIVE SpeedWorlds(_)
SpeedWorlds(n) ==
    IF n = 0 THEN {<<>>}
    ELSE {Append(w, x) : w \in SpeedWorlds(n - 1), x \in SpeedTorrent(n)}

\* one trigger on active torrents, with low-speed retention off, on, or on for
\* stalled torrents only
InitSpeed ==
    /\ InitCommon
    /\ \E c \in {<<FALSE, FALSE>>, <<TRUE, FALSE>>, <<TRUE, TRUE>>} :
          saved_config = [DefaultConfig EXCEPT !.enable_low_speed_tolerance = c[1],
                                                 !.low_speed_stalled_only = c[2]]
    /\ cfg = InitPlugin(saved_config)
    /\ scheduler = saved_config.onlyonce
    /\ \E w \in SpeedWorlds(MaxTorrents) :
          torrents = [i \in Instances |-> IF i = 1 THEN w ELSE <<>>]
    /\ disk = [p \in AllPaths |-> IF p = PathD THEN 20 ELSE 100]
    /\ connected = [i \in Instances |-> TRUE]
    /\ budget = 1

Next ==
    \E t \in Threads :
        \/ TimerFire(t)
        \/ OnDownloadAdded(t)
        \/ HandleSmartQueueCommand(t)
        \/ Acquire(t)
        \/ Fetch(t)
        \/ DiskProtect(t)
        \/ Overflow(t)
        \/ Admit(t)
        \/ Raise(t)
        \/ Release(t)

Spec == Init /\ [][Next]_vars

SpecTwice == InitTwice /\ [][Next]_vars

SpecBurst == InitBurst /\ [][Next]_vars

SpecNotify == InitNotify /\ [][Next]_vars

SpecStates == InitStates /\ [][Next]_vars

SpecDisk == InitDisk /\ [][Next]_vars

SpecSpeed == InitSpeed /\ [][Next]_vars

\* the monitored path lists of the path study: none, one path, the same path
\* written with a trailing slash, and a path with a directory nested in it,
\* in either order
PathConfigs == {<<>>, <<PathD>>, <<PathDSlash>>, <<PathD, PathDX>>, <<PathDX, PathD>>}

\* a torrent that downloads or waits with 10 left, stored in the monitored
\* directory itself, in the nested one, in a directory that shares the name
\* prefix, or elsewhere
PathTorrent(k) ==
    { [ hash |-> HashOf[k], state |-> c[1], amount_left |-> 10, total_size |-> 30,
        added_on |-> k, save_path |-> c[2], dlspeed |-> 0 ] :
        c \in {"downloading", "pausedDL"} \X {PathD, PathDX, PathDB, PathO} }

RECURSIVE PathWorlds(_)
PathWorlds(n) ==
    IF n = 0 THEN {<<>>}
    ELSE {Append(w, x) : w \in PathWorlds(n - 1), x \in PathTorrent(n)}

\* one trigger on each list of monitored paths, with a cap that two torrents
\* fit under or one that none fits under; /d and /d/ are one directory and
\* report the same free space, the nested directory may be another volume
InitPaths ==
    /\ InitCommon
    /\ \E paths \in PathConfigs, cap \in {5, 20} :
          saved_config = [DefaultConfig EXCEPT !.download_paths = paths,
                                                 !.max_capacity_gb = cap]
    /\ cfg = InitPlugin(saved_config)
    /\ scheduler = saved_config.onlyonce
    /\ \E w \in PathWorlds(MaxTorrents - 1) :
          torrents = [i \in Instances |-> IF i = 1 THEN w ELSE <<>>]
    /\ \E fd \in {4, 20}, fx \in {4, 20} :
          disk = [p \in AllPaths |-> IF p \in {PathD, PathDSlash} THEN fd
                                     ELSE IF p = PathDX THEN fx ELSE 100]
    /\ connected = [i \in Instances |-> TRUE]
    /\ budget = 1

SpecPaths == InitPaths /\ [][Next]_vars

\* two triggers in a row on one monitored path with room for one reservation
InitLedger ==
    /\ InitCommon
    /\ saved_config = DefaultConfig
    /\ cfg = InitPlugin(saved_config)
    /\ scheduler = saved_config.onlyonce
    /\ \E w \in PathWorlds(MaxTorrents - 1) :
          torrents = [i \in Instances |-> IF i = 1 THEN w ELSE <<>>]
    /\ disk = [p \in AllPaths |-> IF p = PathD THEN 20 ELSE 100]
    /\ connected = [i \in Instances |-> TRUE]
    /\ budget = 2

SpecLedger == InitLedger /\ [][Next]_vars

\* tags of the three classes, the missing tag included
SomeTags == {"downloading", "pausedDL", "uploading", "error", "None"}

\* a torrent of one of these tags, under the monitored path or outside of it
TagTorrent(k) ==
    { [ hash |-> HashOf[k], state |-> c[1], amount_left |-> 15, total_size |-> 30,
        added_on |-> k, save_path |-> c[2], dlspeed |-> 0 ] :
        c \in SomeTags \X {PathDX, PathO} }

RECURSIVE TagWorlds(_)
TagWorlds(n) ==
    IF n = 0 THEN {<<>>}
    ELSE {Append(w, x) : w \in TagWorlds(n - 1), x \in TagTorrent(n)}

\* one trigger on torrents of the three classes while the monitored path is
\* short of space
InitTags ==
    /\ InitCommon
    /\ saved_config = DefaultConfig
    /\ cfg = InitPlugin(saved_config)
    /\ scheduler = saved_config.onlyonce
    /\ \E w \in TagWorlds(MaxTorrents) :
          torrents = [i \in Instances |-> IF i = 1 THEN w ELSE <<>>]
    /\ disk = [p \in AllPaths |-> IF p = PathD THEN 4 ELSE 100]
    /\ connected = [i \in Instances |-> TRUE]
    /\ budget = 1

SpecTags == InitTags /\ [][Next]_vars

\* a waiting torrent outside the monitored path, added early or late, small or
\* large, with a little or much left
QueueTorrent(k) ==
    { [ hash |-> HashOf[k], state |-> "pausedDL", amount_left |-> c[3],
        total_size |-> c[2], added_on |-> c[1], save_path |-> PathO, dlspeed |-> 0 ] :
        c \in {1, 2} \X {30, 40} \X {10, 30} }

RECURSIVE QueueWorlds(_)
QueueWorlds(n) ==
    IF n = 0 THEN {<<>>}
    ELSE {Append(w, x) : w \in QueueWorlds(n - 1), x \in QueueTorrent(n)}

\* one trigger on waiting torrents in age mode, in size mode and with a
\* priority mode that is neither
InitQueue ==
    /\ InitCommon
    /\ \E mode \in {"age", "size", "newest"} :
          saved_config = [DefaultConfig EXCEPT !.priority_mode = mode]
    /\ cfg = InitPlugin(saved_config)
    /\ scheduler = saved_config.onlyonce
    /\ \E w \in QueueWorlds(MaxTorrents) :
          torrents = [i \in Instances |-> IF i = 1 THEN w ELSE <<>>]
    /\ disk = [p \in AllPaths |-> IF p = PathD THEN 20 ELSE 100]
    /\ connected = [i \in Instances |-> TRUE]
    /\ budget = 1

SpecQueue == InitQueue /\ [][Next]_vars

\* one trigger with a floor of 0, 1 or 5 and a low-speed threshold of 0, 50 or
\* 100 in the saved configuration, the monitored path holding 4
InitOptions ==
    /\ InitCommon
    /\ \E floor \in {0, 1, 5}, kib \in {0, 50, 100} :
          saved_config = [DefaultConfig EXCEPT !.min_free_gb = floor,
                                               !.low_speed_threshold_kib = kib]
    /\ cfg = InitPlugin(saved_config)
    /\ scheduler = saved_config.onlyonce
    /\ \E w \in CoreWorlds(MaxTorrents - 1) :
          torrents = [i \in Instances |-> IF i = 1 THEN w ELSE <<>>]
    /\ disk = [p \in AllPaths |-> IF p = PathD THEN 4 ELSE 100]
    /\ connected = [i \in Instances |-> TRUE]
    /\ budget = 1

SpecOptions == InitOptions /\ [][Next]_vars

\* two triggers on a plugin that is enabled or disabled, initialised with or
\* without the run-once option
InitDisabled ==
    /\ InitCommon
    /\ \E en \in BOOLEAN, once \in BOOLEAN :
          saved_config = [DefaultConfig EXCEPT !.enabled = en, !.onlyonce = once]
    /\ cfg = InitPlugin(saved_config)
    /\ scheduler = saved_config.onlyonce
    /\ \E w \in CoreWorlds(MaxTorrents - 2) :
          torrents = [i \in Instances |-> IF i = 1 THEN w ELSE <<>>]
    /\ disk = [p \in AllPaths |-> IF p = PathD THEN 20 ELSE 100]
    /\ connected = [i \in Instances |-> TRUE]
    /\ budget = 2

SpecDisabled == InitDisabled /\ [][Next]_vars

\* one trigger on two connected downloaders that hold one torrent each, with
\* a cap that one small torrent fits under and two do not
InitInstances ==
    /\ InitCommon
    /\ saved_config = [DefaultConfig EXCEPT !.downloaders = <<1, 2>>,
                                            !.max_capacity_gb = 15]
    /\ cfg = InitPlugin(saved_config)
    /\ scheduler = saved_config.onlyonce
    /\ \E x1 \in CoreTorrent(1), x2 \in CoreTorrent(2) :
          torrents = [i \in Instances |-> IF i = 1 THEN <<x1>> ELSE <<x2>>]
    /\ disk = [p \in AllPaths |-> IF p = PathD THEN 20 ELSE 100]
    /\ connected = [i \in Instances |-> TRUE]
    /\ budget = 1

SpecInstances == InitInstances /\ [][Next]_vars

\* two triggers in a row while the monitored path is short of space
InitRetry ==
    /\ InitCommon
    /\ saved_config = DefaultConfig
    /\ cfg = InitPlugin(saved_config)
    /\ scheduler = saved_config.onlyonce
    /\ \E w \in CoreWorlds(MaxTorrents - 1) :
          torrents = [i \in Instances |-> IF i = 1 THEN w ELSE <<>>]
    /\ disk = [p \in AllPaths |-> IF p = PathD THEN 4 ELSE 100]
    /\ connected = [i \in Instances |-> TRUE]
    /\ budget = 2

SpecRetry == InitRetry /\ [][Next]_vars


\* a step of the pass thread t is running: every call it makes returns or raises
PassStep(t) == Fetch(t) \/ DiskProtect(t) \/ Overflow(t) \/ Admit(t) \/ Raise(t)

\* a thread that can run does run: a thread inside "with lock:" goes on to the
\* end of the block, and a thread blocked on the lock takes it if it stays free
ThreadsRun ==
    \A t \in Threads :
        /\ WF_vars(Acquire(t))
        /\ WF_vars(PassStep(t))
        /\ WF_vars(Release(t))

\* a burst of triggers on two configured downloaders, either of which may be
\* disconnected: on the first a torrent downloads with much left, under the
\* monitored path that is short of space or outside of it, on the second a
\* torrent waits
InitFair ==
    /\ InitCommon
    /\ saved_config = [DefaultConfig EXCEPT !.downloaders = <<1, 2>>]
    /\ cfg = InitPlugin(saved_config)
    /\ scheduler = saved_config.onlyonce
    /\ connected \in [Instances -> BOOLEAN]
    /\ \E w1 \in {w \in CoreWorlds(1) : w[1].state = "downloading" /\ w[1].amount_left = 30} :
          torrents = [i \in Instances |-> IF i = 1 THEN w1
                        ELSE << [ hash |-> HashOf[1], state |-> "pausedDL",
                                  amount_left |-> 10, total_size |-> 30, added_on |-> 1,
                                  save_path |-> PathO, dlspeed |-> 0 ] >>]
    /\ disk = [p \in AllPaths |-> IF p = PathD THEN 4 ELSE 100]
    /\ budget = MaxTriggers

\* the burst of triggers with threads that run
SpecFair == InitFair /\ [][Next]_vars /\ ThreadsRun

\* the downloader completes the download of torrent k of instance i between
\* two passes: the torrent leaves the Active set and seeds
TorrentFinishes(i, k) ==
    /\ \A t \in Threads : pc[t] \in {"idle", "lock"}
    /\ k \in DOMAIN torrents[i]
    /\ IsActive(torrents[i][k])
    /\ torrents' = [torrents EXCEPT ![i][k] =
                       [@ EXCEPT !.state = "uploading", !.amount_left = 0, !.dlspeed = 0]]
    /\ UNCHANGED <<saved_config, scheduler, cfg, connected, disk, lock, pc, loc, budget,
                   triggered, runs, done>>

\* the next period of the periodic job begins once the run of the one before
\* has ended; triggers and runs are counted per period
NewPeriod ==
    /\ GetState
    /\ budget = 0
    /\ \A t \in Threads : pc[t] = "idle"
    /\ budget' = 1
    /\ triggered' = 0
    /\ runs' = 0
    /\ UNCHANGED <<saved_config, scheduler, cfg, torrents, connected, disk, lock, pc, loc, done>>

\* the plugin over any number of periods, with downloads that complete
NextLive ==
    \/ Next
    \/ \E i \in Instances : \E k \in DOMAIN torrents[i] : TorrentFinishes(i, k)
    \/ NewPeriod

\* the torrents of the queue study: a torrent downloads outside the monitored
\* path with a little or much left, or waits with a little or much left, under
\* the monitored path or outside of it
LiveTorrent(k) ==
    {x \in CoreTorrent(k) :
        \/ x.state = "downloading" /\ x.save_path = PathO
        \/ x.state = "pausedDL" /\ x.amount_left > 0}

\* one trigger per period on a downloader with two torrents, the older one the
\* larger, smart skip on or off, the queue ordered by age or by size, the
\* monitored path not short of space
InitLive ==
    /\ InitCommon
    /\ \E skip \in BOOLEAN, mode \in {"age", "size"} :
          saved_config = [DefaultConfig EXCEPT !.enable_smart_skip = skip,
                                               !.priority_mode = mode]
    /\ cfg = InitPlugin(saved_config)
    /\ scheduler = saved_config.onlyonce
    /\ \E x1 \in LiveTorrent(1), x2 \in LiveTorrent(2) :
          torrents = [i \in Instances |->
                        IF i = 1 THEN <<[x1 EXCEPT !.total_size = 40], x2>> ELSE <<>>]
    /\ disk = [p \in AllPaths |-> IF p = PathD THEN 20 ELSE 100]
    /\ connected = [i \in Instances |-> TRUE]
    /\ budget = 1

\* the periodic job goes on firing and the thread of its run goes on to the end
\* of the run; a pass that is tried again and again gets through each of its
\* stages in the end with its requests taking effect, and a torrent that is
\* Active again and again finishes
PassesGoOn ==
    /\ WF_vars(NewPeriod)
    /\ SF_vars(\E t \in Threads : TimerFire(t))
    /\ WF_vars(\E t \in Threads : Acquire(t) \/ PassStep(t) \/ Release(t))
    /\ SF_vars(\E t \in Threads : Fetch(t) /\ pc'[t] = "disk")
    /\ SF_vars(\E t \in Threads : DiskProtect(t) /\ pc'[t] = "overflow")
    /\ SF_vars(\E t \in Threads : Overflow(t) /\ pc'[t] = "admit")
    /\ SF_vars(\E t \in Threads : Admit(t) /\ done'.start_ok)
    /\ SF_vars(\E i \in Instances : \E k \in DOMAIN torrents[i] : TorrentFinishes(i, k))

SpecLive == InitLive /\ [][NextLive]_vars /\ PassesGoOn

-----------------------------------------------------------------------------
(* Properties of one pass.  done describes the pass that ended last: what it *)
(* saw, what it asked the downloader to do and the torrent list afterwards.  *)

Completed == done.outcome = "completed"

\* every request the pass sent has taken effect on the downloader
RequestsEffective == done.disk_ok /\ done.overflow_ok /\ done.start_ok

\* total bytesRemaining of the torrents that are Active after the pass
FinalActiveBytes == SumLeft(ActiveTorrents(done.post))

\* the Overflow Resolver ran and suspended every candidate it had
OverflowExhausted ==
    /\ done.overflow_cands # <<>>
    /\ Range(done.overflow_cands) \subseteq Range(done.overflow_ids)

\* C1 as stated: after a pass whose requests have taken effect the active total
\* is within the cap, unless the Overflow Resolver suspended all its candidates
C1_CapacityAsStated ==
    (Completed /\ RequestsEffective)
        => (FinalActiveBytes <= cfg.max_capacity_gb \/ OverflowExhausted)

\* C1 amended: after a pass that ran to completion and whose requests have taken
\* effect, the active total is within the cap, unless the Overflow Resolver
\* suspended all its candidates or the Anti-Deadlock Guard force-admitted a torrent
C1_Capacity ==
    (Completed /\ RequestsEffective)
        => \/ FinalActiveBytes <= cfg.max_capacity_gb
           \/ OverflowExhausted
           \/ done.adm.forced # <<>>

\* a pass that suspended for overflow, admitted within the cap and forced nothing
C1_Witness ==
    /\ Completed /\ RequestsEffective
    /\ done.overflow_ids # <<>>
    /\ done.adm.release_ids # <<>>
    /\ done.adm.forced = <<>>
    /\ FinalActiveBytes = cfg.max_capacity_gb

-----------------------------------------------------------------------------
(* The notions of the specification, stated on the record of a pass *)

\* storagePath equals p or is nested in it
Under(storagePath, p) ==
    LET q == RStripSlash(p)
    IN  storagePath # <<>> /\ (storagePath = p \/ storagePath = q
                               \/ StartsWith(storagePath, q \o <<"/">>))

\* the monitored paths whose sample was below the floor
LowPaths ==
    {p \in DOMAIN done.free_space_map : done.free_space_map[p] < cfg.min_free_gb}

UnderLow(x) == \E p \in LowPaths : Under(x.save_path, p)

\* matchPath: the first monitored path the storage path is under, or None
MatchPath(storagePath) ==
    LET hits == {k \in DOMAIN cfg.download_paths : Under(storagePath, cfg.download_paths[k])}
    IN  IF hits = {} THEN None
        ELSE cfg.download_paths[CHOOSE k \in hits : \A j \in hits : k <= j]

\* canAdmit against a ledger
CanAdmit(x, free) ==
    LET m == MatchPath(x.save_path)
    IN  m = None \/ m \notin DOMAIN free \/ free[m] - x.amount_left >= cfg.min_free_gb

\* reserve
Reserve(x, free) ==
    LET m == MatchPath(x.save_path)
    IN  IF m = None \/ m \notin DOMAIN free THEN free
        ELSE [free EXCEPT ![m] = @ - x.amount_left]

\* the snapshot the Admission Loop decided on, classified
AdmActive == ActiveTorrents(done.torrents)
AdmPaused == PausedTorrents(done.torrents)
AdmQueue == SortPaused(AdmPaused)

\* what the Admission Loop itself admitted (the guard runs only if that is nothing)
LoopAdmitted == IF done.adm.forced # <<>> THEN <<>> ELSE done.adm.release_ids

PostActive == ActiveTorrents(done.post)

\* C2: no torrent under a path flagged low in a pass is admitted in that pass,
\* by the Admission Loop (zero-bytes shortcut included) or by the guard
C2_NoAdmissionUnderLow ==
    Completed =>
        \A k \in DOMAIN done.torrents :
            UnderLow(done.torrents[k])
                => done.torrents[k].hash \notin Range(done.adm.release_ids)

\* a pass with a low path that left a finished Paused torrent under it alone and
\* admitted another torrent
C2_Witness ==
    /\ Completed
    /\ done.adm.release_ids # <<>>
    /\ \E k \in DOMAIN AdmPaused :
          /\ UnderLow(AdmPaused[k])
          /\ AdmPaused[k].amount_left = 0
          /\ AdmPaused[k].hash \notin Range(done.adm.release_ids)

\* C3: Paused non-empty and Active empty at the start of the Admission Loop imply
\* Active non-empty after the pass, unless every candidate fails the disk check
\* (is under a low path or does not fit the disk budget)
C3_Liveness ==
    ( /\ Completed /\ done.start_ok
      /\ AdmPaused # <<>>
      /\ AdmActive = <<>>
      /\ \E k \in DOMAIN AdmPaused :
            ~UnderLow(AdmPaused[k]) /\ CanAdmit(AdmPaused[k], done.free_space_map) )
        => PostActive # <<>>

\* a pass that found nothing active and made the one oversized candidate active
C3_Witness ==
    /\ Completed /\ done.start_ok
    /\ AdmActive = <<>>
    /\ Len(AdmPaused) > 1
    /\ \E k \in DOMAIN AdmPaused : UnderLow(AdmPaused[k])
    /\ Len(PostActive) = 1
    /\ PostActive[1].amount_left > cfg.max_capacity_gb

\* the first candidate of the queue that is not under a low path and passes canAdmit
Qualifies(x) == ~UnderLow(x) /\ CanAdmit(x, done.free_space_map)
FirstQualifying ==
    LET hits == {k \in DOMAIN AdmQueue : Qualifies(AdmQueue[k])}
    IN  IF hits = {} THEN <<>>
        ELSE <<AdmQueue[CHOOSE k \in hits : \A j \in hits : k <= j].hash>>

\* C5: with nothing active, nothing admitted by the loop and a non-empty queue,
\* the guard admits exactly the first qualifying candidate, whatever its size,
\* and nothing if no candidate qualifies
C5_Guard ==
    (Completed /\ AdmActive = <<>> /\ AdmPaused # <<>> /\ LoopAdmitted = <<>>)
        => done.adm.release_ids = FirstQualifying

\* the guard passed over the head of the queue and admitted a later candidate
\* that is larger than the cap
C5_Witness ==
    /\ Completed /\ AdmActive = <<>> /\ LoopAdmitted = <<>>
    /\ Len(AdmQueue) > 1
    /\ done.adm.forced = <<AdmQueue[2].hash>>
    /\ AdmQueue[2].amount_left > cfg.max_capacity_gb

\* the admissions the Admission Loop should make: every candidate in queue order,
\* admitted when it is not under a low path, passes the disk check and fits
RECURSIVE ShouldAdmit(_, _, _)
ShouldAdmit(queue, activeBytes, free) ==
    IF queue = <<>> THEN <<>>
    ELSE LET x == Head(queue)
         IN  IF /\ ~UnderLow(x)
                /\ CanAdmit(x, free)
                /\ activeBytes + x.amount_left <= cfg.max_capacity_gb
             THEN <<x.hash>> \o ShouldAdmit(Tail(queue), activeBytes + x.amount_left,
                                            Reserve(x, free))
             ELSE ShouldAdmit(Tail(queue), activeBytes, free)

\* the same, with a finished candidate (nothing left) admitted whatever the cap
RECURSIVE ShouldAdmitOrFinished(_, _, _)
ShouldAdmitOrFinished(queue, activeBytes, free) ==
    IF queue = <<>> THEN <<>>
    ELSE LET x == Head(queue)
         IN  IF /\ ~UnderLow(x)
                /\ \/ x.amount_left = 0
                   \/ /\ CanAdmit(x, free)
                      /\ activeBytes + x.amount_left <= cfg.max_capacity_gb
             THEN <<x.hash>> \o ShouldAdmitOrFinished(Tail(queue),
                                    activeBytes + x.amount_left, Reserve(x, free))
             ELSE ShouldAdmitOrFinished(Tail(queue), activeBytes, free)

\* C6 as stated: with smart-skip the loop admits exactly the candidates that are
\* not under a low path, pass the disk check and fit under the cap
C6_SmartSkipAsStated ==
    (Completed /\ cfg.enable_smart_skip)
        => LoopAdmitted = ShouldAdmit(AdmQueue, SumLeft(AdmActive), done.free_space_map)

\* C6 amended: the same, except that a candidate with nothing left is admitted
\* whenever it is not under a low path
C6_SmartSkip ==
    (Completed /\ cfg.enable_smart_skip)
        => LoopAdmitted = ShouldAdmitOrFinished(AdmQueue, SumLeft(AdmActive),
                                                done.free_space_map)

\* a candidate was rejected for its size and a later, smaller one was admitted
C6_Witness ==
    /\ Completed /\ cfg.enable_smart_skip
    /\ AdmActive # <<>>
    /\ \E i, j \in DOMAIN AdmQueue :
          /\ i < j
          /\ AdmQueue[i].hash \in Range(done.adm.skipped)
          /\ AdmQueue[j].hash \in Range(LoopAdmitted)
          /\ AdmQueue[j].amount_left > 0

\* the pass got as far as the Disk Protection Stage
DiskStageRan == done.outcome \in {"completed", "refetch_failed"}

\* C7: Disk Protection requests suspension of exactly those Active torrents of
\* the snapshot that are under a path whose sample is below the floor
C7_DiskProtection ==
    DiskStageRan =>
        \A k \in DOMAIN done.snap0 :
            IsActive(done.snap0[k])
                => (done.snap0[k].hash \in Range(done.disk_ids) <=> UnderLow(done.snap0[k]))

\* a low path with an Active torrent under it suspended and another one, outside
\* of it, left alone
C7_Witness ==
    /\ DiskStageRan
    /\ LowPaths # {}
    /\ \E j, k \in DOMAIN done.snap0 :
          /\ IsActive(done.snap0[j]) /\ done.snap0[j].hash \in Range(done.disk_ids)
          /\ IsActive(done.snap0[k]) /\ done.snap0[k].hash \notin Range(done.disk_ids)

\* the record of a pass that sent no request at all
NoRequests(d) == d.disk_ids = <<>> /\ d.overflow_ids = <<>> /\ d.adm.release_ids = <<>>

\* C4: a pass that runs to completion on the torrent list a completed pass left
\* behind (no fetch failed, all its requests applied, same disk samples, same
\* configuration) sends no suspend and no resume request
C4_Idempotent ==
    [][ ( /\ done.outcome = "completed" /\ RequestsEffective /\ done.refetched
          /\ done' # done
          /\ done'.outcome = "completed"
          /\ done'.inst = done.inst
          /\ done'.snap0 = done.post )
            => NoRequests(done') ]_vars

-----------------------------------------------------------------------------
(* Properties of manage_queue *)

\* thread t is inside the "with lock:" block
InPass(t) == pc[t] \in {"fetch", "disk", "overflow", "admit", "unlock"}

\* C8: at most one thread is inside a pass at any time, whichever trigger called
\* it, and the lock is held exactly while one is
C8_OnePassAtATime ==
    /\ Cardinality({t \in Threads : InPass(t)}) <= 1
    /\ lock <=> \E t \in Threads : InPass(t)

\* a pass for the second downloader is running while two more calls wait
C8_Witness ==
    \E t \in Threads :
        /\ pc[t] = "admit"
        /\ Len(loc[t].visited) = 1
        /\ Cardinality({u \in Threads : pc[u] = "lock"}) = 2

\* C9: every trigger that called manage_queue has had its own run or is waiting
\* for it or in it; none is dropped or merged with another
C9_OneRunPerTrigger ==
    triggered = runs + Cardinality({t \in Threads : pc[t] # "idle"})

\* a trigger arrived while a pass was running, after an earlier run had finished
C9_Witness ==
    /\ runs = 1
    /\ \E t, u \in Threads : InPass(t) /\ pc[u] = "lock"

\* the downloaders thread t has dealt with in its run
VisitedInstances(t) == [k \in DOMAIN loc[t].visited |-> loc[t].visited[k].inst]

\* C10: at the end of a run every configured connected downloader has had its
\* pass, whatever happened in the passes of the others
C10_FaultIsolation ==
    \A t \in Threads :
        /\ InPass(t) => VisitedInstances(t) \o loc[t].services = ServiceInfos
        /\ pc[t] = "unlock" => VisitedInstances(t) = ServiceInfos

\* the pass of the first downloader failed and that of the second ran to its end
C10_Witness ==
    \E t \in Threads :
        /\ pc[t] = "unlock"
        /\ Len(loc[t].visited) = 2
        /\ loc[t].visited[1].outcome \in {"raised", "fetch_error"}
        /\ loc[t].visited[2].outcome = "completed"

-----------------------------------------------------------------------------
(* Properties of the notifications and of the classifier *)

\* C11 as stated: every pass, even one that runs to its end, hands its summary
\* to the notifier whatever its outcome
C11_SummaryAlways ==
    Completed => Len(done.posted) = 1

\* C11 amended: a pass posts its summary exactly when it ran to completion with
\* notifications enabled and released, overflow-suspended or disk-skipped at
\* least one torrent; the summary then carries these lists, the size skips and
\* the running active total
C11_Summary ==
    /\ done.outcome = "refetch_failed" => done.posted = <<>>
    /\ Completed =>
          /\ done.posted # <<>>
                <=> /\ cfg.notify
                    /\ \/ done.adm.release_ids # <<>>
                       \/ done.overflow_ids # <<>>
                       \/ done.adm.skipped_disk # <<>>
          /\ done.posted # <<>> =>
                /\ Len(done.posted) = 1
                /\ done.posted[1].released = done.adm.release_ids
                /\ done.posted[1].paused_by_overflow = done.overflow_ids
                /\ done.posted[1].skipped = done.adm.skipped
                /\ done.posted[1].skipped_disk = done.adm.skipped_disk
                /\ done.posted[1].active_left = done.adm.active_left

\* with notifications on, a pass that only skipped a candidate for disk posted
\* its summary
C11_Witness ==
    /\ Completed /\ cfg.notify
    /\ done.adm.release_ids = <<>> /\ done.overflow_ids = <<>>
    /\ done.adm.skipped_disk # <<>>
    /\ Len(done.posted) = 1

\* the classes of the State Classifier, by the downloader's names of the tags
ActiveTags == {"downloading", "stalledDL", "metaDL", "checkingDL", "forcedDL", "allocating"}
PausedTags == {"pausedDL", "stoppedDL", "queuedDL"}
ClassOf(tag) ==
    IF tag \in ActiveTags THEN "Active"
    ELSE IF tag \in PausedTags THEN "Paused"
    ELSE "Ignored"

\* C12: a pass puts every torrent of its snapshot in exactly one of Active,
\* Paused and Ignored, as the table of tags says; any other tag, an unknown or
\* a missing one included, is Ignored
C12_Classifier ==
    Completed =>
        /\ done.active_ids \cap done.paused_ids = {}
        /\ \A k \in DOMAIN done.torrents :
              LET x == done.torrents[k]
              IN  /\ x.hash \in done.active_ids <=> ClassOf(x.state) = "Active"
                  /\ x.hash \in done.paused_ids <=> ClassOf(x.state) = "Paused"

\* a snapshot with a torrent of an unknown tag and one without a tag, both
\* left out of the two lists
C12_Witness ==
    /\ Completed
    /\ \E j, k \in DOMAIN done.torrents :
          /\ done.torrents[j].state = "unknown"
          /\ done.torrents[k].state = "None"
          /\ done.torrents[j].hash \notin done.active_ids \cup done.paused_ids
          /\ done.torrents[k].hash \notin done.active_ids \cup done.paused_ids

-----------------------------------------------------------------------------
(* Properties of the order of the steps and of failed fetches *)

\* the positions of the log of the pass that hold event e
At(e) == {k \in DOMAIN done.log : done.log[k] = e}

\* C13: in a pass every stop request is followed at once by a fetch and a
\* classification, all of them before the admission loop, which decides on the
\* torrent list as the downloader holds it after the stop requests; the start
\* request comes after every stop request
C13_SuspendBeforeAdmit ==
    Completed =>
        /\ \A k \in At("stop") :
              /\ k + 1 \in At("fetch")
              /\ \E c \in At("classify") : k + 1 < c
              /\ \A a \in At("admit") \cup At("start") : k < a
        /\ \A a \in At("admit") : \E c \in At("classify") : c < a
        /\ done.refetched =>
              done.post = IF done.start_ok
                          THEN StartTorrents(done.torrents, done.adm.release_ids)
                          ELSE done.torrents

\* a pass that stopped torrents for disk and for overflow and then started one
C13_Witness ==
    /\ Completed /\ RequestsEffective /\ done.refetched
    /\ done.disk_ids # <<>>
    /\ done.overflow_ids # <<>>
    /\ done.adm.release_ids # <<>>
    /\ Cardinality(At("stop")) = 2

\* C14: a pass whose first fetch returns an error sends no stop and no start
\* request; a pass whose re-fetch after a stop request fails or returns nothing
\* sends no start request
C14_FetchFailure ==
    /\ done.outcome = "fetch_error" => At("stop") = {} /\ At("start") = {}
    /\ done.outcome = "refetch_failed" =>
          /\ done.disk_ids # <<>>
          /\ At("start") = {} /\ At("admit") = {}
          /\ done.adm.release_ids = <<>>
    /\ (Completed /\ ~done.refetched) =>
          /\ done.overflow_ids # <<>>
          /\ At("start") = {}
          /\ done.adm.release_ids = <<>>
          /\ \A k \in DOMAIN done.post : done.post[k].state # "downloading"
                                           \/ IsActive(done.snap0[k])

\* the re-fetch after an overflow stop failed with a finished torrent waiting
\* outside the monitored path, which stayed paused
C14_Witness ==
    /\ Completed /\ ~done.refetched /\ done.overflow_ok
    /\ \E k \in DOMAIN done.post :
          /\ done.post[k].state = "pausedDL"
          /\ done.snap0[k].state = "pausedDL"
          /\ done.post[k].amount_left = 0
          /\ done.post[k].save_path = PathO

\* the monitored paths whose free-space query fails
UnreadablePaths == {p \in Range(cfg.download_paths) : disk[p] = Unreadable}

\* C15: a pass goes on with a sample of 0 for a monitored path whose free-space
\* query fails; the path is flagged low and nothing under it is admitted
C15_UnreadablePath ==
    /\ \A t \in Threads : \A p \in UnreadablePaths :
          pc[t] \in {"disk", "overflow", "admit"} => loc[t].free_space_map[p] = 0
    /\ DiskStageRan =>
          \A p \in UnreadablePaths :
              /\ done.free_space_map[p] = 0
              /\ p \in Range(done.low_space_paths)
              /\ Completed =>
                    \A k \in DOMAIN done.torrents :
                        Under(done.torrents[k].save_path, p)
                            => done.torrents[k].hash \notin Range(done.adm.release_ids)

\* with the monitored path unreadable a pass ran to its end, admitted a torrent
\* stored elsewhere and left a finished one under the path paused
C15_Witness ==
    /\ Completed
    /\ PathD \in UnreadablePaths
    /\ done.adm.release_ids # <<>>
    /\ \E k \in DOMAIN done.post :
          /\ done.post[k].state = "pausedDL"
          /\ done.post[k].amount_left = 0
          /\ done.post[k].save_path = PathDX

-----------------------------------------------------------------------------
(* Properties of the Overflow Resolver *)

\* the Active torrents the Overflow Resolver started from
OvActive == ActiveTorrents(done.snap1)

\* the torrent of that snapshot with hash h
OvTorrent(h) == CHOOSE x \in Range(done.snap1) : x.hash = h

\* bytesRemaining of the first n candidates
RECURSIVE PrefixLeft(_)
PrefixLeft(n) ==
    IF n = 0 THEN 0
    ELSE OvTorrent(done.overflow_cands[n]).amount_left + PrefixLeft(n - 1)

\* the prefixes of the candidate list whose removal brings the total to the cap
Sufficient ==
    {n \in 0..Len(done.overflow_cands) :
        SumLeft(OvActive) - PrefixLeft(n) <= cfg.max_capacity_gb}

\* low-speed retention is in force
Retention == cfg.enable_low_speed_tolerance /\ cfg.low_speed_threshold_kib > 0

\* the hashes of ids are in the order newest addedAt first
NewestFirst(ids) ==
    \A i, j \in DOMAIN ids :
        i < j => OvTorrent(ids[i]).added_on >= OvTorrent(ids[j]).added_on

\* C16: over the cap the Overflow Resolver suspends exactly the shortest prefix
\* of its candidate list (all Active torrents, newest first unless low-speed
\* retention reorders them) that brings the total down to the cap, or all of
\* them; at or under the cap it suspends nothing
C16_ShortestPrefix ==
    Completed =>
        IF SumLeft(OvActive) <= cfg.max_capacity_gb
        THEN done.overflow_ids = <<>>
        ELSE /\ Range(done.overflow_cands) = Hashes(OvActive)
             /\ Len(done.overflow_cands) = Len(OvActive)
             /\ ~Retention => NewestFirst(done.overflow_cands)
             /\ \E n \in 0..Len(done.overflow_cands) :
                   /\ done.overflow_ids = SubSeq(done.overflow_cands, 1, n)
                   /\ IF Sufficient = {} THEN n = Len(done.overflow_cands)
                      ELSE n \in Sufficient /\ \A m \in Sufficient : n <= m

\* three Active torrents over the cap, of which the resolver suspended two
C16_Witness ==
    /\ Completed
    /\ Len(done.overflow_cands) = 3
    /\ Len(done.overflow_ids) = 2

\* a low-speed torrent: its rate is at most the threshold and, in stalled-only
\* mode, it is stalled; nothing is low-speed without retention
LowSpeed(x) ==
    /\ Retention
    /\ x.dlspeed <= cfg.low_speed_threshold_kib * 1024
    /\ cfg.low_speed_stalled_only => x.state = "stalledDL"

OvSuspended == Range(done.overflow_ids)

\* C17: the Overflow Resolver suspends a low-speed torrent only after every
\* normal-speed Active torrent, and within the low-speed and the normal-speed
\* group newest first, leaving out no newer torrent of the group; without
\* retention all Active torrents form one group
C17_LowSpeedLast ==
    Completed =>
        /\ \A i, j \in DOMAIN done.overflow_ids :
              LET x == OvTorrent(done.overflow_ids[i])
                  y == OvTorrent(done.overflow_ids[j])
              IN  /\ (LowSpeed(x) /\ ~LowSpeed(y)) => j < i
                  /\ (i < j /\ (LowSpeed(x) <=> LowSpeed(y))) => x.added_on >= y.added_on
        /\ \A h \in OvSuspended : \A k \in DOMAIN OvActive :
              LET x == OvTorrent(h)
                  y == OvActive[k]
              IN  /\ (LowSpeed(x) /\ ~LowSpeed(y)) => y.hash \in OvSuspended
                  /\ ((LowSpeed(x) <=> LowSpeed(y)) /\ y.added_on > x.added_on)
                        => y.hash \in OvSuspended

\* the resolver kept the newest Active torrent, a low-speed one, and suspended
\* an older normal-speed one
C17_Witness ==
    /\ Completed /\ Retention
    /\ \E h \in OvSuspended : \E k \in DOMAIN OvActive :
          /\ ~LowSpeed(OvTorrent(h))
          /\ LowSpeed(OvActive[k])
          /\ OvActive[k].added_on > OvTorrent(h).added_on
          /\ OvActive[k].hash \notin OvSuspended

-----------------------------------------------------------------------------
(* Properties of the Admission Loop *)

\* the candidates of the queue behind the first one that is not under a low
\* path, has bytes left, passes the disk check and does not fit under the cap
RECURSIVE AfterBlocker(_, _, _)
AfterBlocker(queue, activeBytes, free) ==
    IF queue = <<>> THEN <<>>
    ELSE LET x == Head(queue)
             rest == Tail(queue)
         IN  IF UnderLow(x) \/ x.amount_left = 0 \/ ~CanAdmit(x, free)
             THEN AfterBlocker(rest, activeBytes, free)
             ELSE IF activeBytes + x.amount_left <= cfg.max_capacity_gb
             THEN AfterBlocker(rest, activeBytes + x.amount_left, Reserve(x, free))
             ELSE rest

Blocked == AfterBlocker(AdmQueue, SumLeft(AdmActive), done.free_space_map)

\* C18: without smart-skip the Admission Loop admits no candidate that comes
\* after the first candidate rejected for its size
C18_HeadOfLine ==
    (Completed /\ ~cfg.enable_smart_skip)
        => Hashes(Blocked) \cap Range(LoopAdmitted) = {}

\* behind a candidate rejected for its size a finished candidate outside every
\* low path stayed paused, while something is active
C18_Witness ==
    /\ Completed /\ ~cfg.enable_smart_skip /\ done.start_ok
    /\ AdmActive # <<>>
    /\ \E k \in DOMAIN Blocked :
          /\ Blocked[k].amount_left = 0
          /\ ~UnderLow(Blocked[k])
          /\ \E j \in DOMAIN done.post : /\ done.post[j].hash = Blocked[k].hash
                                         /\ done.post[j].state = "pausedDL"

\* the scan of the queue: what it admits and what it records as skipped for
\* disk.  Only a candidate rejected for its size without smart-skip ends it
RECURSIVE Scan(_, _, _)
Scan(queue, activeBytes, free) ==
    IF queue = <<>> THEN [admitted |-> <<>>, skippedForDisk |-> <<>>]
    ELSE LET x == Head(queue)
             rest == Tail(queue)
         IN  IF UnderLow(x) THEN Scan(rest, activeBytes, free)
             ELSE IF x.amount_left = 0
             THEN [Scan(rest, activeBytes, free) EXCEPT !.admitted = <<x.hash>> \o @]
             ELSE IF ~CanAdmit(x, free)
             THEN [Scan(rest, activeBytes, free) EXCEPT !.skippedForDisk = <<x.hash>> \o @]
             ELSE IF activeBytes + x.amount_left <= cfg.max_capacity_gb
             THEN [Scan(rest, activeBytes + x.amount_left, Reserve(x, free))
                      EXCEPT !.admitted = <<x.hash>> \o @]
             ELSE IF cfg.enable_smart_skip THEN Scan(rest, activeBytes, free)
             ELSE [admitted |-> <<>>, skippedForDisk |-> <<>>]

\* C19: with or without smart-skip a candidate under a low path or failing the
\* disk check does not end the scan: the loop admits and records as skipped for
\* disk what the scan of the whole queue gives
C19_DiskSkipContinues ==
    Completed =>
        \A r \in {Scan(AdmQueue, SumLeft(AdmActive), done.free_space_map)} :
            /\ LoopAdmitted = r.admitted
            /\ done.adm.skipped_disk = r.skippedForDisk

\* without smart-skip, the head of the queue failed the disk check, was recorded
\* and a later candidate with bytes left was admitted by the loop
C19_Witness ==
    /\ Completed /\ ~cfg.enable_smart_skip
    /\ Len(AdmQueue) > 1
    /\ AdmQueue[1].hash \in Range(done.adm.skipped_disk)
    /\ \E k \in DOMAIN AdmQueue :
          /\ k > 1
          /\ AdmQueue[k].amount_left > 0
          /\ AdmQueue[k].hash \in Range(LoopAdmitted)

\* the finished candidates the scan reaches outside every low path
FinishedReached ==
    {x \in Range(AdmQueue) :
        /\ x.amount_left = 0
        /\ ~UnderLow(x)
        /\ (cfg.enable_smart_skip \/ x \notin Range(Blocked))}

\* C20: a finished Paused torrent outside every low path that the scan reaches
\* is admitted, whatever the cap and the ledger; a loop that admits only
\* finished torrents leaves the active total and the ledger as they were
C20_FinishedAdmitted ==
    Completed =>
        /\ \A x \in FinishedReached : x.hash \in Range(LoopAdmitted)
        /\ ( /\ LoopAdmitted # <<>>
             /\ \A x \in Range(AdmQueue) :
                   x.hash \in Range(LoopAdmitted) => x.amount_left = 0 )
              => /\ done.adm.active_left = SumLeft(AdmActive)
                 /\ done.adm.free_map = done.free_space_map

\* with the Active total above the cap a finished candidate was admitted and a
\* candidate with bytes left was not
C20_Witness ==
    /\ Completed
    /\ SumLeft(AdmActive) > cfg.max_capacity_gb
    /\ FinishedReached # {}
    /\ \E x \in Range(AdmQueue) : x.amount_left > 0 /\ x.hash \notin Range(LoopAdmitted)
    /\ done.adm.free_map = done.free_space_map

-----------------------------------------------------------------------------
(* The disk ledger and the monitored paths *)

\* a storage path matches a monitored path as the ledger lookup has it: it
\* equals the path as configured, or it starts with the path, stripped of its
\* trailing slashes, followed by "/"
Matches(storagePath, p) ==
    /\ storagePath # <<>>
    /\ \/ storagePath = p
       \/ StartsWith(storagePath, RStripSlash(p) \o <<"/">>)

\* the first monitored path, in configured order, that the storage path matches
MatchedPath(storagePath) ==
    LET hits == {k \in DOMAIN cfg.download_paths :
                    Matches(storagePath, cfg.download_paths[k])}
    IN  IF hits = {} THEN None
        ELSE cfg.download_paths[CHOOSE k \in hits : \A j \in hits : k <= j]

\* the torrents of the last snapshot that the pass asked to resume
Admitted ==
    SelectSeq(done.torrents, LAMBDA x : x.hash \in Range(done.adm.release_ids))

\* those of them whose matched monitored path is p
AdmittedUnder(p) == SelectSeq(Admitted, LAMBDA x : MatchedPath(x.save_path) = p)

\* C21: for every monitored path that was not low when sampled, the bytes left
\* of the torrents admitted in the pass (by the loop or by the guard) whose
\* matched monitored path is that path sum to at most the sample minus the
\* floor, so the virtual free bytes of the path never fall below the floor
C21_LedgerFloor ==
    Completed =>
        \A p \in DOMAIN done.free_space_map :
            done.free_space_map[p] >= cfg.min_free_gb =>
                /\ SumLeft(AdmittedUnder(p)) <= done.free_space_map[p] - cfg.min_free_gb
                /\ done.adm.free_map[p] >= cfg.min_free_gb

\* a pass admitted a torrent under a monitored path that was not low and then
\* refused another one for disk space
C21_Witness ==
    /\ Completed
    /\ done.adm.skipped_disk # <<>>
    /\ \E p \in DOMAIN done.free_space_map :
          /\ done.free_space_map[p] >= cfg.min_free_gb
          /\ AdmittedUnder(p) # <<>>

\* the guard admitted a torrent under a monitored path that was not low
C21_WitnessGuard ==
    /\ Completed
    /\ done.adm.forced # <<>>
    /\ \E p \in DOMAIN done.free_space_map :
          /\ done.free_space_map[p] >= cfg.min_free_gb
          /\ AdmittedUnder(p) # <<>>

\* the pass that ended last took its free-space sample
Sampled == done.outcome \in {"completed", "refetch_failed"}

\* C22: every pass starts from a fresh sample of each monitored path, whatever
\* earlier passes reserved, and within the pass an entry of the ledger changes
\* only by the bytes left of the torrents admitted under it, without clamping:
\* it ends at the sample minus their sum and never above the sample
C22_FreshLedger ==
    /\ Sampled =>
          done.free_space_map = [p \in Range(cfg.download_paths) |-> FreeSpace(p)]
    /\ Completed =>
          \A p \in DOMAIN done.free_space_map :
              /\ done.adm.free_map[p] = done.free_space_map[p] - SumLeft(AdmittedUnder(p))
              /\ done.adm.free_map[p] <= done.free_space_map[p]

\* the second pass of a run finds a torrent downloading under the monitored
\* path, starts again from the full sample and admits another torrent under it
C22_Witness ==
    /\ runs = 1
    /\ \E t \in Threads : pc[t] = "unlock"
    /\ Completed
    /\ \E x \in Range(done.snap0) : IsActive(x) /\ MatchedPath(x.save_path) = PathD
    /\ AdmittedUnder(PathD) # <<>>
    /\ done.free_space_map[PathD] = disk[PathD]
    /\ done.adm.free_map[PathD] < done.free_space_map[PathD]

\* a match as the rule is worded: the storage path equals the monitored path
\* or starts with the monitored path, as configured, followed by "/"
MatchesStated(storagePath, p) ==
    /\ storagePath # <<>>
    /\ \/ storagePath = p
       \/ StartsWith(storagePath, p \o <<"/">>)

\* the first monitored path, in configured order, matched as worded
MatchedPathStated(storagePath) ==
    LET hits == {k \in DOMAIN cfg.download_paths :
                    MatchesStated(storagePath, cfg.download_paths[k])}
    IN  IF hits = {} THEN None
        ELSE cfg.download_paths[CHOOSE k \in hits : \A j \in hits : k <= j]

\* C24 as stated: the ledger lookup returns the first monitored path p such
\* that the storage path equals p or starts with p followed by "/"
C24_MatchAsStated ==
    Completed =>
        \A x \in Range(done.torrents) :
            MatchDownloadPath(x.save_path) = MatchedPathStated(x.save_path)

\* C24: the ledger lookup returns the first monitored path p, in configured
\* order, such that the storage path equals p or starts with p, stripped of
\* its trailing slashes, followed by "/"; a storage path that shares only a
\* name prefix with a monitored path is not matched
C24_Match ==
    Completed =>
        \A x \in Range(done.torrents) :
            /\ MatchDownloadPath(x.save_path) = MatchedPath(x.save_path)
            /\ x.save_path = PathDB => MatchDownloadPath(x.save_path) = None

\* a pass on the monitored paths /d and /d/x, in this order, saw a torrent in
\* /d/x, which both paths match, and a torrent in /db
C24_Witness ==
    /\ Completed
    /\ cfg.download_paths = <<PathD, PathDX>>
    /\ \E x \in Range(done.torrents) :
          x.save_path = PathDX /\ MatchDownloadPath(x.save_path) = PathD
    /\ \E x \in Range(done.torrents) : x.save_path = PathDB

\* C25: the low-path test and the ledger lookup agree on every torrent of the
\* snapshot: the torrent is treated as being under a low path exactly when the
\* monitored path that the ledger lookup returns for it is flagged low
C25_LookupsAgree ==
    Sampled =>
        \A x \in Range(done.snap0) :
            (/\ done.low_space_paths # <<>>
             /\ IsPathUnderPaths(x.save_path, done.low_space_paths))
            <=> MatchDownloadPath(x.save_path) \in Range(done.low_space_paths)

\* the ledger lookup finds no monitored path for the torrent
Unmatched(x) == MatchDownloadPath(x.save_path) = None

\* C23: a torrent that matches no monitored path is not suspended by the Disk
\* Protection Stage and not skipped for disk reasons: when nothing downloads
\* and only such torrents wait, one of them is admitted; and a pass that
\* admits only such torrents leaves the ledger as sampled
C23_Unmonitored ==
    /\ Sampled =>
          \A x \in Range(done.snap0) : Unmatched(x) => x.hash \notin Range(done.disk_ids)
    /\ Completed =>
          /\ \A x \in Range(done.torrents) :
                Unmatched(x) => x.hash \notin Range(done.adm.skipped_disk)
          /\ (/\ AdmActive = <<>>
              /\ AdmPaused # <<>>
              /\ \A x \in Range(AdmPaused) : Unmatched(x))
             => done.adm.release_ids # <<>>
          /\ (\A x \in Range(Admitted) : Unmatched(x))
             => done.adm.free_map = done.free_space_map

-----------------------------------------------------------------------------
(* The requests of a pass *)

\* the classes of the torrents of a snapshot that carry the id
ClassesIn(snapshot, id) ==
    {ClassOf(snapshot[k].state) : k \in {j \in DOMAIN snapshot : snapshot[j].hash = id}}

\* every id the pass put in a request
Requested ==
    Range(done.disk_ids) \cup Range(done.overflow_ids) \cup
    (IF Completed THEN Range(done.adm.release_ids) ELSE {})

\* C26: the ids Disk Protection asks to suspend are Active in the first
\* snapshot, those the Overflow Resolver asks to suspend are Active in the
\* snapshot it classified, those the pass asks to resume are Paused in its
\* latest snapshot, and no torrent classified Ignored is in any request
C26_RequestClasses ==
    Sampled =>
        /\ \A id \in Range(done.disk_ids) : ClassesIn(done.snap0, id) = {"Active"}
        /\ \A id \in Range(done.overflow_ids) : ClassesIn(done.snap1, id) = {"Active"}
        /\ Completed =>
              \A id \in Range(done.adm.release_ids) :
                  ClassesIn(done.torrents, id) = {"Paused"}
        /\ \A id \in Requested :
              "Ignored" \notin ClassesIn(done.snap0, id) \cup ClassesIn(done.snap1, id)
                                  \cup ClassesIn(done.torrents, id)

\* a pass suspended a torrent for disk space and resumed another while a
\* seeding or errored torrent under the low path was left alone
C26_Witness ==
    /\ Completed
    /\ done.disk_ids # <<>>
    /\ done.adm.release_ids # <<>>
    /\ \E x \in Range(done.snap0) :
          /\ ClassOf(x.state) = "Ignored"
          /\ x.hash \notin Requested

\* C27 as stated: every batch the pass sent to the downloader, a suspend batch
\* or the resume batch, is followed by a re-fetch in the same pass
C27_RefetchAfterEveryBatch ==
    Sampled =>
        \A k \in At("stop") \cup At("start") : \E j \in At("fetch") : j > k

\* C27: every suspend batch of a pass is followed at once by a re-fetch in the
\* same pass; the resume batch is the last call of the pass to the downloader
\* and no re-fetch follows it
C27_RefetchAfterSuspend ==
    Sampled =>
        /\ \A k \in At("stop") : k + 1 \in At("fetch")
        /\ \A k \in At("start") : k = Len(done.log)

\* a pass sent a suspend batch, fetched again and ended on its resume batch
C27_Witness ==
    /\ Completed
    /\ At("stop") # {}
    /\ At("start") = {Len(done.log)}

-----------------------------------------------------------------------------
(* The guard, the totals and the queue *)

\* C28: the guard admits at most one torrent in a pass, and none when the
\* latest snapshot of the pass has an Active torrent, when the Admission Loop
\* admitted a torrent, or when no torrent is Paused
C28_GuardAtMostOne ==
    Completed =>
        /\ Len(done.adm.forced) <= 1
        /\ AdmActive # <<>> => done.adm.forced = <<>>
        /\ AdmPaused = <<>> => done.adm.forced = <<>>
        /\ done.adm.forced # <<>> =>
              /\ done.adm.release_ids = done.adm.forced
              /\ Scan(AdmQueue, SumLeft(AdmActive), done.free_space_map).admitted = <<>>

\* the guard admitted one of two waiting torrents that both qualified
C28_Witness ==
    /\ Completed
    /\ Len(done.adm.forced) = 1
    /\ Len(AdmPaused) >= 2
    /\ \A x \in Range(AdmPaused) : Qualifies(x)

\* the total the Admission Loop started from: its total at the end less the
\* bytes left of what it admitted itself
EntryBytes ==
    done.adm.active_left
        - SumLeft(SelectSeq(done.torrents, LAMBDA x : x.hash \in Range(LoopAdmitted)))

\* the Active torrents of a snapshot that Disk Protection did not ask to suspend
ActiveNotDiskSuspended(snapshot) ==
    SelectSeq(ActiveTorrents(snapshot), LAMBDA x : x.hash \notin Range(done.disk_ids))

\* C29 as stated: the totals on which the Overflow Resolver and the Admission
\* Loop decide leave out every torrent that Disk Protection asked to suspend
C29_DiskSuspendedNotCounted ==
    Completed =>
        /\ done.overflow_cands # <<>>
              <=> SumLeft(ActiveNotDiskSuspended(done.snap1)) > cfg.max_capacity_gb
        /\ EntryBytes = SumLeft(ActiveNotDiskSuspended(done.torrents))

\* C29: the totals on which the Overflow Resolver and the Admission Loop decide
\* are summed over the torrents that the snapshot fetched after the suspend
\* request of Disk Protection shows as Active; a torrent whose suspension took
\* effect is not among them
C29_CountedAsRefetched ==
    Completed =>
        /\ done.overflow_cands # <<>> <=> SumLeft(OvActive) > cfg.max_capacity_gb
        /\ EntryBytes = SumLeft(AdmActive)
        /\ done.disk_ok =>
              \A id \in Range(done.disk_ids) :
                  id \notin Hashes(OvActive) \cup Hashes(AdmActive)

\* Disk Protection suspended a torrent with effect while another torrent went
\* on downloading, and the totals of the pass count the other one only
C29_Witness ==
    /\ Completed
    /\ done.disk_ids # <<>>
    /\ done.disk_ok
    /\ OvActive # <<>>
    /\ EntryBytes = SumLeft(AdmActive)
    /\ EntryBytes < SumLeft(ActiveTorrents(done.snap0))

\* the key of the queue: the total size in size mode, the time of addition in
\* any other mode
QueueKey(x) == IF cfg.priority_mode = "size" THEN x.total_size ELSE x.added_on

\* the place of the i-th Paused torrent of the snapshot in the queue: after
\* those of a smaller key and after those of the same key that precede it
PlaceOf(i) ==
    1 + Cardinality({j \in DOMAIN AdmPaused :
                        \/ QueueKey(AdmPaused[j]) < QueueKey(AdmPaused[i])
                        \/ QueueKey(AdmPaused[j]) = QueueKey(AdmPaused[i]) /\ j < i})

\* the Paused queue as the policy orders it
PolicyQueue ==
    [r \in DOMAIN AdmPaused |-> AdmPaused[CHOOSE i \in DOMAIN AdmPaused : PlaceOf(i) = r]]

\* the first candidate of that queue that qualifies for the guard
PolicyFirst ==
    LET hits == {k \in DOMAIN PolicyQueue : Qualifies(PolicyQueue[k])}
    IN  IF hits = {} THEN <<>>
        ELSE <<PolicyQueue[CHOOSE k \in hits : \A j \in hits : k <= j].hash>>

\* C30: the Admission Loop and the guard walk the same queue, the Paused
\* torrents by time of addition ascending, or by total size ascending in size
\* mode, equal keys in snapshot order; any mode other than size is age mode
C30_QueueOrder ==
    Completed =>
        \A r \in {Scan(PolicyQueue, SumLeft(AdmActive), done.free_space_map)} :
            /\ LoopAdmitted = r.admitted
            /\ done.adm.forced # <<>> => done.adm.forced = PolicyFirst
            /\ (AdmActive = <<>> /\ r.admitted = <<>>) => done.adm.forced = PolicyFirst

\* in size mode the loop admitted the third torrent of the snapshot, the
\* smallest but not the oldest, before the first one, and left out the second
\* one, as large as the first and with too much left
C30_Witness ==
    /\ Completed
    /\ cfg.priority_mode = "size"
    /\ Len(AdmPaused) = 3
    /\ AdmPaused[1].total_size = AdmPaused[2].total_size
    /\ AdmPaused[3].total_size < AdmPaused[1].total_size
    /\ AdmPaused[3].added_on > AdmPaused[1].added_on
    /\ done.adm.release_ids = <<AdmPaused[3].hash, AdmPaused[1].hash>>

-----------------------------------------------------------------------------
(* Requests and figures of one pass, continued *)

\* C31 as stated: within one pass no torrent is both suspended and resumed:
\* the ids of the suspend requests of the pass and the ids of its resume
\* request are disjoint
C31_SuspendResumeDisjoint ==
    Completed =>
        (Range(done.disk_ids) \cup Range(done.overflow_ids))
            \cap Range(done.adm.release_ids) = {}

\* C31: within one pass no torrent is both suspended by Disk Protection and
\* resumed; a torrent suspended by the Overflow Resolver is in the queue of
\* the same pass once the re-fetch shows it Paused, and only then can its id
\* be in the resume request too
C31_DiskSuspendedNotResumed ==
    Completed =>
        /\ Range(done.disk_ids) \cap Range(done.adm.release_ids) = {}
        /\ \A id \in Range(done.overflow_ids) \cap Range(done.adm.release_ids) :
              ClassesIn(done.torrents, id) = {"Paused"}

\* a pass suspended a torrent under a low path, suspended another one for
\* capacity and resumed only the latter
C31_Witness ==
    /\ Completed
    /\ done.disk_ids # <<>>
    /\ Range(done.overflow_ids) \cap Range(done.adm.release_ids) # {}

\* C32: the active total reported in the summary of a pass is the bytes left
\* of the torrents Active in its latest snapshot plus the bytes left of every
\* torrent admitted in the pass, a torrent admitted by the guard included
C32_ReportedTotal ==
    (Completed /\ done.posted # <<>>) =>
        done.posted[1].active_left = SumLeft(AdmActive) + SumLeft(Admitted)

-----------------------------------------------------------------------------
(* The configuration *)

\* C37: the floor and the low-speed threshold of a pass are the configured
\* values, a configured 0 included: the paths flagged low are those whose
\* sample is below the configured floor (none when it is 0)
C37_OptionsAsGiven ==
    Sampled =>
        /\ cfg.min_free_gb = saved_config.min_free_gb
        /\ cfg.low_speed_threshold_kib = saved_config.low_speed_threshold_kib
        /\ Range(done.low_space_paths)
              = {p \in DOMAIN done.free_space_map :
                    done.free_space_map[p] < saved_config.min_free_gb}

\* C38: while the plugin is disabled no run of manage_queue starts, whatever
\* event, command or scheduled job arrives, and no pass sends a request
C38_DisabledIdle ==
    ~cfg.enabled =>
        /\ triggered = 0
        /\ \A t \in Threads : pc[t] = "idle"
        /\ done = NoPass

-----------------------------------------------------------------------------
(* Several downloaders, repeated passes *)

\* C34: the pass of an instance sees and requests the torrents of that
\* instance only, starts from the sample of the disks and from the total of
\* its own Active torrents, and admits what the scan of its own queue gives,
\* whatever the other instance holds or was granted in the same run
C34_PerInstance ==
    Sampled =>
        /\ Hashes(done.snap0) \subseteq Hashes(torrents[done.inst])
        /\ Requested \subseteq Hashes(torrents[done.inst])
        /\ done.free_space_map = [p \in Range(cfg.download_paths) |-> FreeSpace(p)]
        /\ Completed =>
              \A r \in {Scan(AdmQueue, SumLeft(AdmActive), done.free_space_map)} :
                  /\ EntryBytes = SumLeft(AdmActive)
                  /\ LoopAdmitted = r.admitted
                  /\ done.adm.skipped_disk = r.skippedForDisk

\* in one run the first instance is left with a torrent downloading under the
\* monitored path, and the pass of the second instance admits its own torrent
\* under that path although the two together exceed the cap and the floor
C34_Witness ==
    /\ Completed
    /\ done.inst = 2
    /\ \E t \in Threads : pc[t] = "unlock" /\ Len(loc[t].visited) = 2
    /\ AdmittedUnder(PathD) # <<>>
    /\ \E x \in Range(ActiveTorrents(torrents[1])) :
          /\ MatchedPath(x.save_path) = PathD
          /\ x.amount_left + SumLeft(Admitted) > cfg.max_capacity_gb
          /\ disk[PathD] - x.amount_left - SumLeft(Admitted) < cfg.min_free_gb

\* the ids of a request are all different
Distinct(ids) == Cardinality(Range(ids)) = Len(ids)

\* every stage of the pass sent at most one request, with each id once, and
\* the pass decided on a fresh snapshot: a torrent of its first snapshot that
\* it sent no request for is in the same state on the downloader, Disk
\* Protection asked for the Active torrents under a low path, and the loop
\* admitted what the scan of the queue gives
FreshDecisions ==
    /\ Distinct(done.disk_ids) /\ Distinct(done.overflow_ids)
    /\ Cardinality(At("stop")) <= 2 /\ Cardinality(At("start")) <= 1
    /\ \A x \in Range(done.snap0) : x.hash \notin Requested => x \in Range(done.post)
    /\ \A x \in Range(done.snap0) :
          IsActive(x) => (x.hash \in Range(done.disk_ids) <=> UnderLow(x))
    /\ Completed =>
          /\ Distinct(done.adm.release_ids)
          /\ LoopAdmitted = Scan(AdmQueue, SumLeft(AdmActive), done.free_space_map).admitted

\* C35 as stated: no torrent is in two requests of one pass, and every pass
\* decides on a fresh snapshot only
C35_NoRetryAsStated ==
    Sampled =>
        /\ FreshDecisions
        /\ Range(done.disk_ids) \cap Range(done.overflow_ids) = {}

\* C35: no stage of a pass repeats its request, and every pass decides on a
\* fresh snapshot only; a torrent whose suspension by Disk Protection had no
\* effect is still Active after the re-fetch and only such a torrent can be
\* in the suspend request of the Overflow Resolver of the same pass as well
C35_NoRetry ==
    Sampled =>
        /\ FreshDecisions
        /\ Range(done.disk_ids) \cap Range(done.overflow_ids) # {} => ~done.disk_ok

\* the second pass of two asks again for the suspension of the torrent that
\* is still Active under the low path and for the resumption of a torrent
\* that is still Paused
C35_Witness ==
    /\ runs = 1
    /\ triggered = 2
    /\ \E t \in Threads : pc[t] = "unlock"
    /\ Completed
    /\ done.disk_ids # <<>>
    /\ ~done.disk_ok
    /\ done.adm.release_ids # <<>>
    /\ ~done.start_ok
    /\ done.post = done.snap0

\* C33: a thread that leaves manage_queue leaves the lock free, whether its run
\* found no downloader, ended a pass early or had a pass raise; a held lock is
\* released in the end, and a trigger waiting for the lock gets it in the end
C33_LockReleased ==
    /\ [][\A t \in Threads : (pc[t] # "idle" /\ pc'[t] = "idle") => ~lock']_vars
    /\ lock ~> ~lock
    /\ \A t \in Threads : (pc[t] = "lock") ~> InPass(t)

\* a run in which a pass raised has ended, the thread that waited during it
\* now has the lock, and a third trigger waits
C33_Witness ==
    /\ runs = 1
    /\ triggered = 3
    /\ done.outcome = "raised"
    /\ \E t, u \in Threads :
          /\ pc[t] = "fetch"
          /\ loc[t].visited = <<>>
          /\ pc[u] = "lock"

\* torrent k of the first downloader waits, is under no low path and passes the
\* disk check on a fresh sample
Eligible(k) ==
    /\ k \in DOMAIN torrents[1]
    /\ IsPaused(torrents[1][k])
    /\ ~IsPathUnderPaths(torrents[1][k].save_path, LowSpacePaths(GetFreeSpaceMap))
    /\ CheckDiskBudget(torrents[1][k].save_path, torrents[1][k].amount_left, GetFreeSpaceMap)

\* the pass that has just ended asked for torrent k to be resumed
AdmittedNow(k) ==
    /\ Completed
    /\ done.inst = 1
    /\ k \in DOMAIN torrents[1]
    /\ torrents[1][k].hash \in Range(done.adm.release_ids)

\* C36: with no new torrent arriving and every Active torrent finishing in the
\* end, every waiting torrent that is under no low path and passes the disk
\* check is admitted by some pass, whatever its size and the smart-skip setting
C36_NoStarvation ==
    \A k \in 1..2 : Eligible(k) ~> AdmittedNow(k)

\* an oversize torrent that waited behind another is force-admitted once the
\* other has finished
C36_Witness ==
    /\ Completed
    /\ done.adm.forced # <<>>
    /\ Len(torrents[1]) >= 2
    /\ torrents[1][1].state = "uploading"
    /\ torrents[1][1].total_size = 40
    /\ AdmittedNow(2)
    /\ torrents[1][2].amount_left = 30

=============================================================================
